---- MODULE Spec2Model ----
(***************************************************************************)
(* PoFight: the match orchestrator (FightManager), the fighter state       *)
(* machine (Fighter), the AI policy (AIController) and the collaborators   *)
(* they drive (GameLoop, Collision, Signals, the game store).              *)
(*                                                                         *)
(* Units.  Positions are in 1/60 pixel (one tick of movement at full input *)
(* is MOVE_SPEED * dt = 400/60 px, i.e. MOVE_SPEED units).  Time is in     *)
(* deciseconds (100 ms).  Axis inputs are in halves: -2..2 stand for       *)
(* -1, -0.5, 0, 0.5, 1, so "input.y > 0.5" reads "y > 1".  chargeLevel is  *)
(* in tenths: 0..10 stand for 0.0 .. 1.0.                                  *)
(*                                                                         *)
(* Clock.  The code reads performance.now() only to take the difference    *)
(* with chargeStartTime, and gives setTimeout only delays.  The model      *)
(* keeps these differences: chargeElapsed is now - chargeStartTime of a    *)
(* charging fighter, and a timer carries the time left until it is due.    *)
(***************************************************************************)
EXTENDS Integers, Sequences, FiniteSets, TLC

VARIABLES
    player,      \* FightManager.player : Fighter
    cpu,         \* FightManager.cpu : Fighter
    timers,      \* pending setTimeout callbacks, in scheduling order
    running,     \* GameLoop is running (start() called, stop() not yet)
    outcomes,    \* outcome handlers that have run ("WIN" / "LOSS"), in order
    store,       \* useGameStore state
    reloaded,    \* window.location.reload() has happened
    tickCount,   \* number of FightManager.update calls so far
    stoppedAt,   \* tickCount at the moment gameLoop.stop() was called, -1 before
    capture,     \* history: per fighter, charge at last release and hits landed since
    loop,        \* GameLoop: accumulator and frame requests not yet delivered
    signal,      \* a Signal on its own: value and subscribers
    log          \* history: what the last tick read and wrote, phase by phase

vars == <<player, cpu, timers, running, outcomes, store, reloaded,
          tickCount, stoppedAt, capture, loop, signal, log>>

----------------------------------------------------------------------------
(* Bounds of the model *)

MaxTicks == 3
MaxCatchUp == 2
MaxUpdates == 4
MaxFrames == 3
MaxValueLength == 8

----------------------------------------------------------------------------
(* Constants.ts *)

GROUND_Y == 900
FIGHTER_WIDTH == 100
MOVE_SPEED == 400
MAX_CHARGE_TIME == 1
OVERHEAT_TIME == 2

ATTACK_FRAME_DATA ==
    [JAB         |-> [damage |-> 5],
     HEAVY_PUNCH |-> [damage |-> 20],
     KICK_FLICK  |-> [damage |-> 7],
     HEAVY_KICK  |-> [damage |-> 25]]

(* durations passed to setTimeout, in ms *)
ATTACK_DURATION_MS == 300
STUN_DURATION_MS == 300
OVERHEAT_COOLDOWN_MS == 1000
RELOAD_DELAY_MS == 2000

chipDamage == 2
MAX_HEALTH == 100
PLAYER_START_X == 400
CPU_START_X == 1200
LAST_LEVEL == 5

----------------------------------------------------------------------------
(* Unit conversions and arithmetic helpers *)

Px(n) == n * 60            \* pixels -> position units
Ds(sec) == sec * 10        \* seconds -> deciseconds
MsToDs(ms) == ms \div 100  \* milliseconds -> deciseconds

Abs(n) == IF n < 0 THEN -n ELSE n
Max(a, b) == IF a >= b THEN a ELSE b
Min(a, b) == IF a <= b THEN a ELSE b

FighterStates ==
    {"IDLE", "MOVING", "CHARGING", "ATTACKING", "BLOCKING_HIGH",
     "BLOCKING_LOW", "STUNNED", "OVERHEATED"}

BlockingStates == {"BLOCKING_HIGH", "BLOCKING_LOW"}

----------------------------------------------------------------------------
(* Fighter.ts *)

(* new Fighter(id, startX) *)
NewFighter(id, startX) ==
    [id |-> id, x |-> startX, y |-> GROUND_Y, state |-> "IDLE",
     health |-> MAX_HEALTH, chargeLevel |-> 0, attackType |-> "NONE",
     attackHeight |-> "MID", facingRight |-> TRUE, chargeElapsed |-> 0]

(* a pending setTimeout: the fighter whose state the closure re-checks,
   the state the closure was issued from, and the delay left *)
Timer(kind, who, delay) == [kind |-> kind, who |-> who, left |-> delay, arg |-> 0]

(* variant: duration / MAX_CHARGE_TIME without Math.min *)
ChargeLevelOf_NoCap(duration) ==
    (duration * 10) \div Ds(MAX_CHARGE_TIME)

(* Math.min(duration / MAX_CHARGE_TIME, 1.0), in tenths *)
ChargeLevelOf(duration) ==
    Min((duration * 10) \div Ds(MAX_CHARGE_TIME), 10)

(* variant: the comparisons with 0.5 taken as inclusive *)
ReleaseModifier_Inclusive(y) ==
    IF y <= -1 THEN "LOW" ELSE IF y >= 1 THEN "HIGH" ELSE "MID"

(* the attack height chosen from input.y at release *)
ReleaseModifier(y) ==
    IF y < -1 THEN "LOW" ELSE IF y > 1 THEN "HIGH" ELSE "MID"

(* the chargeLevel a fighter is left with by the release branch *)
ChargeAfterRelease(f) == 0

(* variant: the block inputs are read in every state *)
BlockRule_FromAnyState(currentState, y) ==
    IF y > 1 THEN "BLOCKING_HIGH"
    ELSE IF y < -1 THEN "BLOCKING_LOW"
    ELSE IF currentState \in BlockingStates THEN "IDLE"
    ELSE currentState

(* the blocking logic: the state it leaves *)
BlockRule(currentState, y) ==
    IF currentState \in {"IDLE", "MOVING", "BLOCKING_HIGH", "BLOCKING_LOW"}
    THEN IF y > 1 THEN "BLOCKING_HIGH"
         ELSE IF y < -1 THEN "BLOCKING_LOW"
         ELSE IF currentState \in BlockingStates THEN "IDLE"
         ELSE currentState
    ELSE currentState

(* variant: movement is not restricted by blocking *)
CanMove_WhileBlocking(currentState, isBlocking) ==
    currentState \in {"IDLE", "MOVING"}

(* the guard of the movement block *)
CanMove(currentState, isBlocking) ==
    currentState \in {"IDLE", "MOVING"} /\ ~isBlocking

(* variant: the step of a whole second, dt left out *)
MoveStep_NoDt(x, inputX) == x + ((inputX * MOVE_SPEED) \div 2) * 60

(* variant: the step taken against the input direction *)
MoveStep_Reversed(x, inputX) == x - (inputX * MOVE_SPEED) \div 2

(* x += input.x * MOVE_SPEED * dt, with input.x in halves *)
MoveStep(x, inputX) == x + (inputX * MOVE_SPEED) \div 2

(* variant: a held button restarts a charge in progress *)
CanStartCharge_Restarts(currentState, isBlocking) ==
    currentState \notin {"OVERHEATED", "ATTACKING"} /\ ~isBlocking

(* the guard of "start charging if possible" *)
CanStartCharge(currentState, isBlocking) ==
    currentState \notin {"CHARGING", "OVERHEATED", "ATTACKING"} /\ ~isBlocking

(* Fighter.update(dt, input) with dt = 1/60 s.
   Result: the fighter afterwards and the timers it scheduled. *)
FighterUpdate(f, input) ==
    LET currentState == f.state
        \* blocking logic
        s1 == BlockRule(currentState, input.y)
        isBlocking == s1 \in BlockingStates
        \* movement
        canMove == CanMove(currentState, isBlocking)
        f2 == IF canMove /\ input.x # 0
              THEN [f EXCEPT !.state = "MOVING",
                             !.x = MoveStep(f.x, input.x),
                             !.facingRight = (input.x > 0)]
              ELSE IF canMove /\ currentState = "MOVING"
              THEN [f EXCEPT !.state = "IDLE"]
              ELSE [f EXCEPT !.state = s1]
        held == input.punchHeld \/ input.kickHeld
        \* start charging if possible
        f3 == IF held /\ CanStartCharge(currentState, isBlocking)
              THEN [f2 EXCEPT !.state = "CHARGING",
                              !.chargeElapsed = 0,
                              !.chargeLevel = 0,
                              !.attackType = IF input.punchHeld THEN "PUNCH" ELSE "KICK"]
              ELSE f2
        duration == f3.chargeElapsed
        overheat == duration > Ds(OVERHEAT_TIME)
    IN  IF held
        THEN IF currentState = "CHARGING"
             THEN IF overheat
                  THEN [f |-> [f3 EXCEPT !.state = "OVERHEATED", !.chargeLevel = 0],
                        sched |-> <<Timer("OVERHEATED", f.id, MsToDs(OVERHEAT_COOLDOWN_MS))>>]
                  ELSE [f |-> [f3 EXCEPT !.chargeLevel = ChargeLevelOf(duration)],
                        sched |-> <<>>]
             ELSE [f |-> f3, sched |-> <<>>]
        ELSE IF currentState = "CHARGING"
             THEN \* release: attackHeight, executeAttack(duration), chargeLevel
                  [f |-> [f3 EXCEPT !.attackHeight = ReleaseModifier(input.y),
                                    !.state = "ATTACKING",
                                    !.chargeLevel = ChargeAfterRelease(f3)],
                   sched |-> <<Timer("ATTACKING", f.id, MsToDs(ATTACK_DURATION_MS))>>]
             ELSE [f |-> f3, sched |-> <<>>]

----------------------------------------------------------------------------
(* AIController.ts *)

AI_CLOSE_DISTANCE == 150

AxisInput(x, y, punchHeld, kickHeld) ==
    [x |-> x, y |-> y, punchHeld |-> punchHeld, kickHeld |-> kickHeld]

(* variant: the defensive logic does not look at the opponent *)
AIGetInput_BlocksAnytime(me, opponent) ==
    LET dist == Abs(me.x - opponent.x)
    IN  {AxisInput(0, 2, FALSE, FALSE), AxisInput(0, -2, FALSE, FALSE)}
        \cup (IF dist > Px(AI_CLOSE_DISTANCE)
              THEN {AxisInput(IF me.x < opponent.x THEN 2 ELSE -2, 0, FALSE, FALSE)}
              ELSE {AxisInput(0, 0, FALSE, FALSE), AxisInput(0, 0, TRUE, FALSE)})

(* variant: the far branch always walks left *)
AIGetInput_WalksLeft(me, opponent) ==
    LET dist == Abs(me.x - opponent.x)
        opponentAttacking ==
            opponent.state = "ATTACKING" \/ opponent.chargeLevel > 5
    IN  (IF opponentAttacking
         THEN {AxisInput(0, 2, FALSE, FALSE), AxisInput(0, -2, FALSE, FALSE)}
         ELSE {})
        \cup (IF dist > Px(AI_CLOSE_DISTANCE)
              THEN {AxisInput(-2, 0, FALSE, FALSE)}
              ELSE {AxisInput(0, 0, FALSE, FALSE), AxisInput(0, 0, TRUE, FALSE)})

(* AIController.getInput(): every value the call can return for the given
   fighters, over all results of Math.random() *)
AIGetInput(me, opponent) ==
    LET dist == Abs(me.x - opponent.x)
        opponentAttacking ==
            opponent.state = "ATTACKING" \/ opponent.chargeLevel > 5
        defensive ==
            IF opponentAttacking
            THEN {AxisInput(0, 2, FALSE, FALSE), AxisInput(0, -2, FALSE, FALSE)}
            ELSE {}
        offensive ==
            IF dist > Px(AI_CLOSE_DISTANCE)
            THEN {AxisInput(IF me.x < opponent.x THEN 2 ELSE -2, 0, FALSE, FALSE)}
            ELSE {AxisInput(0, 0, FALSE, FALSE), AxisInput(0, 0, TRUE, FALSE)}
    IN  defensive \cup offensive

----------------------------------------------------------------------------
(* Collision.ts *)

(* variant: a separation of exactly FIGHTER_WIDTH counts as a collision *)
checkCollision_Inclusive(a, b) == Abs(a.x - b.x) <= Px(FIGHTER_WIDTH)

checkCollision(a, b) == Abs(a.x - b.x) < Px(FIGHTER_WIDTH)

(* variant: each fighter is moved by the whole overlap *)
resolvePushCollision_WholeOverlap(a, b) ==
    LET overlap == Px(FIGHTER_WIDTH) - Abs(a.x - b.x)
    IN  IF a.x < b.x
        THEN <<[a EXCEPT !.x = a.x - overlap], [b EXCEPT !.x = b.x + overlap]>>
        ELSE <<[a EXCEPT !.x = a.x + overlap], [b EXCEPT !.x = b.x - overlap]>>

(* result: <<a afterwards, b afterwards>> *)
resolvePushCollision(a, b) ==
    LET overlap == Px(FIGHTER_WIDTH) - Abs(a.x - b.x)
        push == overlap \div 2
    IN  IF a.x < b.x
        THEN <<[a EXCEPT !.x = a.x - push], [b EXCEPT !.x = b.x + push]>>
        ELSE <<[a EXCEPT !.x = a.x + push], [b EXCEPT !.x = b.x - push]>>

----------------------------------------------------------------------------
(* Signals.ts *)

(* new Signal(initial); history: written is the value last passed to the
   setter, or the initial one; cancelled are the callbacks whose unsubscribe
   function has been called and that were not subscribed again since *)
NewSignal(initial) ==
    [value |-> initial, subscribers |-> <<>>, written |-> initial, cancelled |-> {}]

NoSignal == NewSignal(0)

(* variant: the setter stores and notifies without comparing *)
SignalWrite_Ungated(sig, v) ==
    [signal |-> [sig EXCEPT !.value = v, !.written = v],
     calls |-> [i \in 1..Len(sig.subscribers) |-> <<sig.subscribers[i], v>>]]

(* set value(v): nothing when v is the current value; otherwise v is stored
   and every subscriber called with it, in subscription order.
   Result: the signal afterwards and the calls made, <<subscriber, value>>. *)
SignalWrite(sig, v) ==
    IF v = sig.value
    THEN [signal |-> [sig EXCEPT !.written = v], calls |-> <<>>]
    ELSE [signal |-> [sig EXCEPT !.value = v, !.written = v],
          calls |-> [i \in 1..Len(sig.subscribers) |-> <<sig.subscribers[i], v>>]]

(* get value() *)
SignalRead(sig) == sig.value

(* peek() *)
SignalPeek(sig) == sig.value

(* subscribe(cb) *)
SignalSubscribe(sig, cb) == [sig EXCEPT !.subscribers = Append(@, cb)]

(* variant: the returned function leaves the subscription in place *)
SignalUnsubscribe_Keeps(sig, cb) == sig

(* the function subscribe(cb) returns *)
SignalUnsubscribe(sig, cb) ==
    LET subs == sig.subscribers
    IN  [sig EXCEPT !.subscribers =
            SelectSeq(subs, LAMBDA c : c # cb)]

----------------------------------------------------------------------------
(* Program.cs (the /diag endpoint) *)

(* a string? value: null, or a sequence of characters *)
NullString == [null |-> TRUE, chars |-> <<>>]
Str(chars) == [null |-> FALSE, chars |-> chars]

(* new string('*', count) *)
Stars(count) == [i \in 1..count |-> "*"]

(* variant: values of up to 5 characters are fully masked *)
MaskValue_ShortShown(value) ==
    LET n == Len(value.chars)
        visible == 3
    IN  IF value.null \/ n = 0 \/ n <= 5
        THEN (IF value.null THEN NullString ELSE Str(Stars(3)))
        ELSE Str(SubSeq(value.chars, 1, visible)
                 \o Stars(n - visible * 2)
                 \o SubSeq(value.chars, n - visible + 1, n))

(* MaskValue(value) *)
MaskValue(value) ==
    LET n == Len(value.chars)
        visible == 3
    IN  IF value.null \/ n = 0 \/ n <= 6
        THEN (IF value.null THEN NullString ELSE Str(Stars(3)))
        ELSE Str(SubSeq(value.chars, 1, visible)
                 \o Stars(n - visible * 2)
                 \o SubSeq(value.chars, n - visible + 1, n))

----------------------------------------------------------------------------
(* gameState.ts *)

Levels == 1..(LAST_LEVEL + 1)

InitialStore ==
    [unlockedLevels |-> 1, highScores |-> [l \in Levels |-> 0], currentLevel |-> 1]

unlockLevel(st, level) ==
    [st EXCEPT !.unlockedLevels = Max(st.unlockedLevels, level)]

(* variant: the new score replaces the stored one *)
setHighScore_Overwrites(st, level, score) ==
    [st EXCEPT !.highScores[level] = score]

setHighScore(st, level, score) ==
    [st EXCEPT !.highScores[level] = Max(st.highScores[level], score)]

setCurrentLevel(st, level) == [st EXCEPT !.currentLevel = level]

----------------------------------------------------------------------------
(* FightManager.ts *)

(* the tier damage of an attack type at a charge level (tenths) *)
BaseDamage(attackType, chargeLevel) ==
    IF attackType = "PUNCH"
    THEN IF chargeLevel >= 9 THEN ATTACK_FRAME_DATA.HEAVY_PUNCH.damage
                             ELSE ATTACK_FRAME_DATA.JAB.damage
    ELSE IF attackType = "KICK"
    THEN IF chargeLevel >= 9 THEN ATTACK_FRAME_DATA.HEAVY_KICK.damage
                             ELSE ATTACK_FRAME_DATA.KICK_FLICK.damage
    ELSE 0

(* variant: the subtraction without Math.max *)
ApplyDamage_NoClamp(health, damage) == health - damage

(* Math.max(0, health - damage) *)
ApplyDamage(health, damage) == Max(0, health - damage)

(* the extended reach during an attack, FIGHTER_WIDTH * 1.5 *)
AttackRange == (Px(FIGHTER_WIDTH) * 3) \div 2

(* variant: distance >= attackRange returns *)
InAttackRange_Strict(attacker, defender) ==
    Abs(attacker.x - defender.x) < AttackRange

(* the range test of checkHitForAttacker: distance > attackRange returns *)
InAttackRange(attacker, defender) ==
    Abs(attacker.x - defender.x) <= AttackRange

(* the early returns of checkHitForAttacker: nothing is touched *)
NoHit(attacker, defender) ==
    [a |-> attacker, d |-> defender, sched |-> <<>>]

(* variant: a perfect block lets chip damage through *)
PerfectBlock_Chips(attacker, defender) ==
    [a |-> attacker,
     d |-> [defender EXCEPT !.health = ApplyDamage(defender.health, chipDamage)],
     sched |-> <<>>]

(* the perfect-block branch: logs and returns *)
PerfectBlock(attacker, defender) ==
    [a |-> attacker, d |-> defender, sched |-> <<>>]

(* variant: chip damage also breaks the block *)
ChipHit_Stuns(attacker, defender) ==
    [a |-> attacker,
     d |-> [defender EXCEPT !.health = ApplyDamage(defender.health, chipDamage),
                            !.state = "STUNNED"],
     sched |-> <<>>]

(* the chip branch: mid attacks do chip damage through blocks *)
ChipHit(attacker, defender) ==
    [a |-> attacker,
     d |-> [defender EXCEPT !.health = ApplyDamage(defender.health, chipDamage)],
     sched |-> <<>>]

(* variant: the attacker is not reset after the hit *)
FullHit_KeepsAttacking(attacker, defender) ==
    LET baseDamage == BaseDamage(attacker.attackType, attacker.chargeLevel)
    IN  [a |-> attacker,
         d |-> [defender EXCEPT !.health = ApplyDamage(defender.health, baseDamage),
                                !.state = "STUNNED"],
         sched |-> <<Timer("STUNNED", defender.id, MsToDs(STUN_DURATION_MS))>>]

(* variant: the stun is given without scheduling its recovery *)
FullHit_NoRecovery(attacker, defender) ==
    LET baseDamage == BaseDamage(attacker.attackType, attacker.chargeLevel)
    IN  [a |-> [attacker EXCEPT !.state = "IDLE", !.attackType = "NONE"],
         d |-> [defender EXCEPT !.health = ApplyDamage(defender.health, baseDamage),
                                !.state = "STUNNED"],
         sched |-> <<>>]

(* the damage branch: apply damage, stun, reset the attacker, schedule the
   stun recovery *)
FullHit(attacker, defender) ==
    LET baseDamage == BaseDamage(attacker.attackType, attacker.chargeLevel)
    IN  [a |-> [attacker EXCEPT !.state = "IDLE", !.attackType = "NONE"],
         d |-> [defender EXCEPT !.health = ApplyDamage(defender.health, baseDamage),
                                !.state = "STUNNED"],
         sched |-> <<Timer("STUNNED", defender.id, MsToDs(STUN_DURATION_MS))>>]

(* FightManager.checkHitForAttacker(attacker, defender).
   Result: both fighters afterwards and the timers scheduled. *)
checkHitForAttacker(attacker, defender) ==
    LET attackHeight == attacker.attackHeight
        defenderState == defender.state
        isBlockedHigh == defenderState = "BLOCKING_HIGH" /\ attackHeight = "HIGH"
        isBlockedLow == defenderState = "BLOCKING_LOW" /\ attackHeight = "LOW"
        isBlockedMid == defenderState \in BlockingStates /\ attackHeight = "MID"
    IN  IF attacker.state # "ATTACKING" THEN NoHit(attacker, defender)
        ELSE IF ~InAttackRange(attacker, defender) THEN NoHit(attacker, defender)
        ELSE IF isBlockedHigh \/ isBlockedLow THEN PerfectBlock(attacker, defender)
        ELSE IF isBlockedMid THEN ChipHit(attacker, defender)
        ELSE FullHit(attacker, defender)

(* the state FightManager.update works on *)
World ==
    [player |-> player, cpu |-> cpu, timers |-> timers, running |-> running,
     outcomes |-> outcomes, store |-> store, tickCount |-> tickCount,
     stoppedAt |-> stoppedAt, capture |-> capture, log |-> log]

(* variant: the win is reported but the loop is left running *)
(* the closure handleWin() schedules: the next level becomes the current one
   if there is one *)
reloadAfterWin(st, nextLevel) ==
    IF nextLevel <= LAST_LEVEL THEN setCurrentLevel(st, nextLevel) ELSE st

handleWin_NoStop(w) ==
    LET nextLevel == w.store.currentLevel + 1
    IN  [w EXCEPT !.store = setHighScore(unlockLevel(w.store, nextLevel),
                                         w.store.currentLevel, w.player.health * 100),
                  !.outcomes = Append(w.outcomes, "WIN"),
                  !.timers = Append(w.timers,
                      [kind |-> "RELOAD_WIN", who |-> "manager",
                       left |-> MsToDs(RELOAD_DELAY_MS), arg |-> nextLevel])]

(* FightManager.handleWin() *)
handleWin(w) ==
    LET nextLevel == w.store.currentLevel + 1
    IN  [w EXCEPT !.running = FALSE,
                  !.stoppedAt = w.tickCount,
                  !.store = setHighScore(unlockLevel(w.store, nextLevel),
                                         w.store.currentLevel, w.player.health * 100),
                  !.outcomes = Append(w.outcomes, "WIN"),
                  !.timers = Append(w.timers,
                      [kind |-> "RELOAD_WIN", who |-> "manager",
                       left |-> MsToDs(RELOAD_DELAY_MS), arg |-> nextLevel])]

(* FightManager.handleLoss() *)
handleLoss(w) ==
    [w EXCEPT !.running = FALSE,
              !.stoppedAt = w.tickCount,
              !.outcomes = Append(w.outcomes, "LOSS"),
              !.timers = Append(w.timers,
                  [kind |-> "RELOAD_LOSS", who |-> "manager",
                   left |-> MsToDs(RELOAD_DELAY_MS), arg |-> 0])]

(* the win condition at the end of FightManager.update *)
WinCondition(w) ==
    IF w.cpu.health <= 0 THEN handleWin(w)
    ELSE IF w.player.health <= 0 THEN handleLoss(w)
    ELSE w

(* history of one attack: the charge level the fighter had when it released,
   and on how many ticks since then its attack reduced the opponent's health *)
CaptureOf(old, before, afterUpdate, hit) ==
    LET released == before.state = "CHARGING" /\ afterUpdate.state = "ATTACKING"
        base == IF released THEN [charge |-> before.chargeLevel, landed |-> 0] ELSE old
    IN  IF hit.d.health < hit.d0.health
        THEN [base EXCEPT !.landed = Min(base.landed + 1, 2)]
        ELSE base

(* FightManager.checkHits(): player as attacker, then cpu as attacker.
   Result: the two resolutions, each with the fighters it read. *)
checkHits_BothLand(p, c) ==
    LET h1 == checkHitForAttacker(p, c)
        h2 == checkHitForAttacker([h1.d EXCEPT !.state = c.state], h1.a)
    IN  <<[att |-> "player", a0 |-> p, d0 |-> c,
           a |-> h1.a, d |-> h1.d, sched |-> h1.sched],
          [att |-> "cpu", a0 |-> h1.d, d0 |-> h1.a,
           a |-> h2.a, d |-> h2.d, sched |-> h2.sched]>>

checkHits(p, c) ==
    LET h1 == checkHitForAttacker(p, c)
        h2 == checkHitForAttacker(h1.d, h1.a)
    IN  <<[att |-> "player", a0 |-> p, d0 |-> c,
           a |-> h1.a, d |-> h1.d, sched |-> h1.sched],
          [att |-> "cpu", a0 |-> h1.d, d0 |-> h1.a,
           a |-> h2.a, d |-> h2.d, sched |-> h2.sched]>>

(* a charge start time is read only by a fighter that is still CHARGING *)
DropChargeTime(f) ==
    IF f.state = "CHARGING" THEN f ELSE [f EXCEPT !.chargeElapsed = 0]

(* variant: hit detection runs on the fighters as they are before the push *)
PhysicsThenHits_NoPush(p, c) ==
    [pC |-> p, cC |-> c, hits |-> checkHits(p, c)]

PhysicsThenHits_HitsFirst(p, c) ==
    LET hits == checkHits(p, c)
        p1 == hits[2].d
        c1 == hits[2].a
        pushed == IF checkCollision(p1, c1) THEN resolvePushCollision(p1, c1)
                  ELSE <<p1, c1>>
    IN  [pC |-> pushed[1], cC |-> pushed[2], hits |-> hits]

(* steps 3 and 4 of FightManager.update: collision and push, then hit
   detection on the pushed fighters.
   Result: the fighters after the push and the two resolutions. *)
PhysicsThenHits(p, c) ==
    LET pushed == IF checkCollision(p, c) THEN resolvePushCollision(p, c)
                  ELSE <<p, c>>
    IN  [pC |-> pushed[1], cC |-> pushed[2],
         hits |-> checkHits(pushed[1], pushed[2])]

(* FightManager.update(dt), given the two inputs it obtained *)
FightManagerUpdate(w, playerInput, cpuInput) ==
    LET pu == FighterUpdate(w.player, playerInput)
        cu == FighterUpdate(w.cpu, cpuInput)
        collided == checkCollision(pu.f, cu.f)
        ph == PhysicsThenHits(pu.f, cu.f)
        hits == ph.hits
        w1 == [w EXCEPT
                 !.player = DropChargeTime(hits[2].d),
                 !.cpu = DropChargeTime(hits[2].a),
                 !.timers = w.timers \o pu.sched \o cu.sched
                              \o hits[1].sched \o hits[2].sched,
                 !.tickCount = w.tickCount + 1,
                 !.capture = [player |-> CaptureOf(w.capture.player, w.player,
                                                   pu.f, hits[1]),
                              cpu |-> CaptureOf(w.capture.cpu, w.cpu,
                                                cu.f, hits[2])],
                 !.log = [valid |-> TRUE,
                          cpuInput |-> cpuInput,
                          p0 |-> w.player, c0 |-> w.cpu,
                          pU |-> pu.f, cU |-> cu.f,
                          collided |-> collided,
                          pC |-> ph.pC, cC |-> ph.cC,
                          hits |-> hits, steps |-> 0, ran |-> 0]]
    IN  WinCondition(w1)

----------------------------------------------------------------------------
(* GameLoop.ts *)

(* loop time is in 1/60 ms, which makes the timestep of 1000/60 ms whole *)
LoopMs(ms) == ms * 60

FRAMES_PER_SECOND == 60
MAX_FRAME_DELTA_MS == 1000

(* the fixed timestep, 1000 / 60 ms *)
timestep == LoopMs(1000) \div FRAMES_PER_SECOND

(* a loop that has not been started: nothing accumulated, no frame
   requested, no frame delivered *)
NoLoop == [accumulator |-> 0, frames |-> 0, delivered |-> 0]

(* variant: the elapsed time is clamped at 1100 ms *)
ClampDelta_Loose(delta) == Min(delta, LoopMs(1100))

(* the elapsed time of a frame, clamped *)
ClampDelta(delta) == Min(delta, LoopMs(MAX_FRAME_DELTA_MS))

(* variant: a delivered frame runs whether or not the loop was stopped *)
FrameRuns_Always(isRunning) == TRUE

(* a frame notification is acted on only while the loop is running *)
FrameRuns(isRunning) == isRunning

(* variant: every start() requests a frame *)
StartRequests_Again(isRunning) == 1

(* the number of frames start() requests: none when already running *)
StartRequests(isRunning) == IF isRunning THEN 0 ELSE 1

(* the catch-up loop on an accumulator acc after n callbacks of this frame:
   while a whole timestep is left and the loop is running, the callback is
   invoked with the timestep and the accumulator decremented; the callback
   calls stop() in its stopAt-th invocation (never when stopAt = 0).
   Result: the accumulator left, the callbacks made, the dt values they
   were given, and whether the callback stopped the loop. *)
RECURSIVE LoopTicks(_, _, _, _)
LoopTicks(acc, n, stopAt, dts) ==
    IF acc < timestep
    THEN [accumulator |-> acc, ticks |-> n, dts |-> dts, stopped |-> FALSE]
    ELSE IF n + 1 = stopAt
    THEN [accumulator |-> acc - timestep, ticks |-> n + 1,
          dts |-> dts \cup {timestep}, stopped |-> TRUE]
    ELSE LoopTicks(acc - timestep, n + 1, stopAt, dts \cup {timestep})

(* the catch-up loop of one frame: n whole timesteps are in the accumulator;
   the update callback runs once per timestep while the loop is running.
   Result: every world the frame can end in. *)
RECURSIVE RunTicks(_, _, _)
RunTicks(w, playerInput, n) ==
    IF n = 0 \/ ~w.running THEN {w}
    ELSE UNION { RunTicks(FightManagerUpdate(w, playerInput, cpuInput),
                          playerInput, n - 1)
                 : cpuInput \in AIGetInput(w.cpu, w.player) }

----------------------------------------------------------------------------
(* The match *)

NoLog == [valid |-> FALSE]
NoCapture == [charge |-> 0, landed |-> 0]

(* what InputManager reports for one frame: nothing held, a direction,
   an attack button, a button with a direction *)
PlayerInputs ==
    { AxisInput(0, 0, FALSE, FALSE),
      AxisInput(2, 0, FALSE, FALSE),
      AxisInput(0, 2, FALSE, FALSE), AxisInput(0, -2, FALSE, FALSE),
      AxisInput(0, 0, TRUE, FALSE), AxisInput(0, 0, FALSE, TRUE),
      AxisInput(0, 2, TRUE, FALSE) }

(* positions the fighters have walked to by the time the match is joined:
   the cpu has advanced for 95 ticks; the player has stayed in its corner
   (out of attack range), or walked up to exactly the attack range (two
   full steps and a half step), or walked up to touch the cpu *)
InitCpuX == Px(CPU_START_X) - 95 * MOVE_SPEED
InitPlayerX ==
    {Px(PLAYER_START_X),
     InitCpuX - AttackRange,
     InitCpuX - Px(FIGHTER_WIDTH)}

(* player and cpu health when the match is joined: both untouched, or both
   worn down by earlier jabs and chip damage *)
InitHealth == {<<MAX_HEALTH, MAX_HEALTH>>, <<3, 5>>}

Init ==
    /\ \E x \in InitPlayerX, h \in InitHealth :
          /\ player = [NewFighter("player", x) EXCEPT !.health = h[1]]
          /\ cpu = [NewFighter("cpu", InitCpuX) EXCEPT !.health = h[2],
                                                      !.facingRight = FALSE]
    /\ timers = <<>>
    /\ running = TRUE
    /\ outcomes = <<>>
    /\ store = InitialStore
    /\ reloaded = FALSE
    /\ loop = NoLoop
    /\ signal = NoSignal
    /\ tickCount = 0
    /\ stoppedAt = -1
    /\ capture = [player |-> NoCapture, cpu |-> NoCapture]
    /\ log = NoLog

(* one frame notification delivered to a running loop *)
Frame ==
    /\ ~reloaded
    /\ running
    /\ \E n \in 1..MaxCatchUp, playerInput \in PlayerInputs :
         /\ tickCount + n <= MaxTicks
         /\ \E w \in RunTicks(World, playerInput, n) :
              /\ player' = w.player
              /\ cpu' = w.cpu
              /\ timers' = w.timers
              /\ running' = w.running
              /\ outcomes' = w.outcomes
              /\ store' = w.store
              /\ tickCount' = w.tickCount
              /\ stoppedAt' = w.stoppedAt
              /\ capture' = w.capture
              /\ log' = [w.log EXCEPT !.steps = n, !.ran = w.tickCount - tickCount]
    /\ UNCHANGED <<reloaded, loop, signal>>

(* the index of the timer the host fires next: the earliest due, and among
   equals the one scheduled first *)
NextTimer ==
    CHOOSE i \in 1..Len(timers) :
        \A j \in 1..Len(timers) :
            \/ timers[i].left < timers[j].left
            \/ timers[i].left = timers[j].left /\ i <= j

RemoveAt(s, i) == SubSeq(s, 1, i - 1) \o SubSeq(s, i + 1, Len(s))

(* variant: the closure sets IDLE without reading the state *)
Revert_Unguarded(f, from) == [f EXCEPT !.state = "IDLE"]

(* variant: the closure never sets IDLE *)
Revert_Never(f, from) == f

(* the guarded reversion closures of Fighter.update, executeAttack and
   checkHitForAttacker *)
Revert(f, from) == IF f.state = from THEN [f EXCEPT !.state = "IDLE"] ELSE f

(* a due setTimeout callback runs *)
FireTimer ==
    /\ ~reloaded
    /\ timers # <<>>
    /\ timers[NextTimer].left = 0
    /\ LET tm == timers[NextTimer] IN
         /\ timers' = RemoveAt(timers, NextTimer)
         /\ player' = IF tm.who = "player" THEN Revert(player, tm.kind) ELSE player
         /\ cpu' = IF tm.who = "cpu" THEN Revert(cpu, tm.kind) ELSE cpu
         /\ store' = IF tm.kind = "RELOAD_WIN"
                     THEN reloadAfterWin(store, tm.arg) ELSE store
         /\ reloaded' = \/ tm.kind = "RELOAD_LOSS"
                        \/ tm.kind = "RELOAD_WIN" /\ tm.arg <= LAST_LEVEL
    /\ log' = NoLog
    /\ UNCHANGED <<running, outcomes, tickCount, stoppedAt, capture, loop, signal>>

(* the charge durations the code tells apart: chargeLevel above 0.5 (the AI
   reacts), at 0.9 (heavy tier), at MAX_CHARGE_TIME, past OVERHEAT_TIME *)
ChargeMarks ==
    {6, 9, Ds(MAX_CHARGE_TIME), Ds(OVERHEAT_TIME) + 1}

(* the waits until something next happens: a callback falls due, or a
   held charge reaches its next mark *)
Waits ==
    {timers[i].left : i \in 1..Len(timers)}
    \cup UNION { {m - f.chargeElapsed : m \in {k \in ChargeMarks : k > f.chargeElapsed}}
                 : f \in {g \in {player, cpu} : g.state = "CHARGING"} }

Elapse(f, d) ==
    IF f.state = "CHARGING"
    THEN [f EXCEPT !.chargeElapsed = Min(f.chargeElapsed + d, Ds(OVERHEAT_TIME) + 1)]
    ELSE f

(* wall-clock time passes, up to the next moment something happens; a due
   callback runs before more time passes *)
Advance ==
    /\ ~reloaded
    /\ Waits # {}
    /\ LET d == CHOOSE m \in Waits : \A k \in Waits : m <= k IN
         /\ d > 0
         /\ timers' = [i \in 1..Len(timers) |-> [timers[i] EXCEPT !.left = @ - d]]
         /\ player' = Elapse(player, d)
         /\ cpu' = Elapse(cpu, d)
    /\ log' = NoLog
    /\ UNCHANGED <<running, outcomes, store, reloaded, loop, signal, tickCount, stoppedAt, capture>>

Next == Frame \/ FireTimer \/ Advance

Spec == Init /\ [][Next]_vars

----------------------------------------------------------------------------
(* The fighters within reach of each other, tick by tick.

   The match is followed one FightManager.update at a time from the moment
   the fighters stand at attack range, with the player's buttons and
   vertical axis as inputs and the cpu driven by the AI.

   History: a pending reversion whose fighter has left the state it was
   scheduled in is marked (arg = 1), so that it is known at fire time
   whether the fighter has stayed in that state since. *)

(* what the input devices report on a tick, as far as the charge and the
   reversions go: nothing held, a button held, up held *)
FighterInputs ==
    { AxisInput(0, 0, FALSE, FALSE),
      AxisInput(0, 0, FALSE, TRUE),
      AxisInput(0, 2, FALSE, FALSE) }

(* a fighter passing through the states of seq leaves state kind *)
Leaves(seq, kind) ==
    \E i \in 1..(Len(seq) - 1) : seq[i] = kind /\ seq[i + 1] # kind

(* history: marks the reversions of fighter who that a tick supersedes.
   ts are the timers after the tick, the first nOld of them pending since
   before it; seq0 are the states the fighter went through in the tick
   (before, after its update, after each hit resolution), seqU those from
   its update on, which is when the attack-end and cooldown reversions of
   this tick were scheduled; a stun recovery scheduled in this tick is
   scheduled in the state the tick ends with *)
Supersede(ts, nOld, who, seq0, seqU) ==
    [i \in 1..Len(ts) |->
        IF /\ ts[i].who = who
           /\ \/ i <= nOld /\ Leaves(seq0, ts[i].kind)
              \/ i > nOld /\ ts[i].kind # "STUNNED" /\ Leaves(seqU, ts[i].kind)
        THEN [ts[i] EXCEPT !.arg = 1]
        ELSE ts[i]]

FighterInit ==
    /\ player = NewFighter("player", InitCpuX - AttackRange)
    /\ cpu = [NewFighter("cpu", InitCpuX) EXCEPT !.facingRight = FALSE]
    /\ timers = <<>>
    /\ running = TRUE
    /\ outcomes = <<>>
    /\ store = InitialStore
    /\ reloaded = FALSE
    /\ loop = NoLoop
    /\ signal = NoSignal
    /\ tickCount = 0
    /\ stoppedAt = -1
    /\ capture = [player |-> NoCapture, cpu |-> NoCapture]
    /\ log = [valid |-> FALSE, unit |-> "init"]

(* a frame of a running loop with one timestep to run *)
UnitTick ==
    /\ running
    /\ tickCount < MaxUpdates
    /\ \E input \in FighterInputs : \E w \in RunTicks(World, input, 1) :
         LET l == w.log
             pseq == <<l.p0.state, l.pU.state, l.hits[1].a.state, l.hits[2].d.state>>
             cseq == <<l.c0.state, l.cU.state, l.hits[1].d.state, l.hits[2].a.state>>
         IN  /\ player' = w.player
             /\ cpu' = w.cpu
             /\ timers' = Supersede(
                              Supersede(w.timers, Len(timers), "player",
                                        pseq, SubSeq(pseq, 2, 4)),
                              Len(timers), "cpu", cseq, SubSeq(cseq, 2, 4))
             /\ running' = w.running
             /\ outcomes' = w.outcomes
             /\ store' = w.store
             /\ tickCount' = w.tickCount
             /\ stoppedAt' = w.stoppedAt
             /\ capture' = w.capture
             /\ log' = [valid |-> FALSE, unit |-> "update", input |-> input,
                        f0 |-> player, fU |-> l.pU, c0 |-> cpu, cU |-> l.cU,
                        hits |-> l.hits, pending |-> timers]
    /\ UNCHANGED <<reloaded, loop, signal>>

(* a due reversion runs *)
UnitFire ==
    /\ timers # <<>>
    /\ timers[NextTimer].left = 0
    /\ timers[NextTimer].who \in {"player", "cpu"}
    /\ LET tm == timers[NextTimer]
           p1 == IF tm.who = "player" THEN Revert(player, tm.kind) ELSE player
           c1 == IF tm.who = "cpu" THEN Revert(cpu, tm.kind) ELSE cpu
           rest == RemoveAt(timers, NextTimer)
       IN  /\ player' = p1
           /\ cpu' = c1
           /\ timers' = Supersede(
                            Supersede(rest, Len(rest), "player",
                                      <<player.state, p1.state>>, <<>>),
                            Len(rest), "cpu", <<cpu.state, c1.state>>, <<>>)
           /\ log' = [valid |-> FALSE, unit |-> "fire", tm |-> tm,
                      f0 |-> player, c0 |-> cpu]
    /\ UNCHANGED <<running, outcomes, store, reloaded, loop, signal, tickCount, stoppedAt, capture>>

(* the waits of the match, and the wait until a held charge is exactly
   OVERHEAT_TIME old, the last moment before it overheats *)
UnitWaits ==
    Waits \cup { Ds(OVERHEAT_TIME) - f.chargeElapsed :
                   f \in {g \in {player, cpu} : /\ g.state = "CHARGING"
                                                /\ g.chargeElapsed < Ds(OVERHEAT_TIME)} }

(* time passes, up to the next moment something happens; a due reversion
   runs before more time passes *)
UnitWait ==
    /\ UnitWaits # {}
    /\ LET d == CHOOSE m \in UnitWaits : \A k \in UnitWaits : m <= k IN
         /\ d > 0
         /\ timers' = [i \in 1..Len(timers) |-> [timers[i] EXCEPT !.left = @ - d]]
         /\ player' = Elapse(player, d)
         /\ cpu' = Elapse(cpu, d)
    /\ log' = [valid |-> FALSE, unit |-> "wait"]
    /\ UNCHANGED <<running, outcomes, store, reloaded, loop, signal, tickCount, stoppedAt, capture>>

FighterNext == UnitTick \/ UnitFire \/ UnitWait

FighterSpec == FighterInit /\ [][FighterNext]_vars

----------------------------------------------------------------------------
(* Fighter.update as a function of the fighter and the input *)

(* every value of { x, y, punchHeld, kickHeld } on the half-step grid *)
AllInputs ==
    { AxisInput(x, y, p, k) : x \in -2..2, y \in -2..2, p \in BOOLEAN, k \in BOOLEAN }

(* times since the start of a charge at which an update can find it *)
ChargeTimes == {0, 5, Ds(MAX_CHARGE_TIME), 15, Ds(OVERHEAT_TIME), Ds(OVERHEAT_TIME) + 1}

(* fighters as an update can find them.  Resting: never attacked yet, or
   after an attack that ran its 300 ms.  Charging: either button, any time
   since the start, chargeLevel as the previous update left it (none yet, or
   one just before).  Busy: in an attack or overheated.  Stunned: also in
   the middle of a charge, which leaves its chargeLevel behind. *)
UpdateFighters ==
    LET base == NewFighter("player", Px(PLAYER_START_X))
        resting ==
            { [base EXCEPT !.state = st, !.attackType = ty, !.facingRight = fr] :
                st \in {"IDLE", "MOVING", "BLOCKING_HIGH", "BLOCKING_LOW", "STUNNED"},
                ty \in {"NONE", "PUNCH"}, fr \in BOOLEAN }
        charging ==
            UNION { { [base EXCEPT !.state = "CHARGING", !.attackType = ty,
                                   !.facingRight = fr, !.chargeElapsed = e,
                                   !.chargeLevel = lv] :
                        lv \in {0, ChargeLevelOf(e)} } :
                    ty \in {"PUNCH", "KICK"}, fr \in BOOLEAN, e \in ChargeTimes }
        busy ==
            { [base EXCEPT !.state = st, !.attackType = ty, !.facingRight = fr] :
                st \in {"ATTACKING", "OVERHEATED"},
                ty \in {"PUNCH", "KICK"}, fr \in BOOLEAN }
        stunned ==
            { [base EXCEPT !.state = "STUNNED", !.attackType = "KICK",
                           !.chargeLevel = 6] }
    IN  resting \cup charging \cup busy \cup stunned

UpdateInit ==
    /\ player \in UpdateFighters
    /\ cpu = [NewFighter("cpu", Px(PLAYER_START_X) + 2 * AttackRange)
                 EXCEPT !.facingRight = FALSE]
    /\ timers = <<>>
    /\ running = TRUE
    /\ outcomes = <<>>
    /\ store = InitialStore
    /\ reloaded = FALSE
    /\ loop = NoLoop
    /\ signal = NoSignal
    /\ tickCount = 0
    /\ stoppedAt = -1
    /\ capture = [player |-> NoCapture, cpu |-> NoCapture]
    /\ log \in { [valid |-> FALSE, unit |-> "input", input |-> i] : i \in AllInputs }

(* player.update(dt, input) *)
ApplyUpdate ==
    /\ log.unit = "input"
    /\ LET pu == FighterUpdate(player, log.input)
       IN  /\ player' = DropChargeTime(pu.f)
           /\ timers' = pu.sched
           /\ log' = [valid |-> FALSE, unit |-> "update", input |-> log.input,
                      f0 |-> player, fU |-> pu.f, c0 |-> cpu, pending |-> timers]
    /\ tickCount' = tickCount + 1
    /\ UNCHANGED <<cpu, running, outcomes, store, reloaded, loop, signal, stoppedAt, capture>>

UpdateNext == ApplyUpdate

UpdateSpec == UpdateInit /\ [][UpdateNext]_vars

----------------------------------------------------------------------------
(* The collision functions on a pair of fighters.

   player and cpu are the two fighters of the pair; log.swap tells in which
   argument order the functions are called on them. *)

(* x positions in px: far apart, overlapping, left of the origin, and
   separations of 99, 100 and 101 px *)
CollisionXs == {-150, -50, -1, 0, 49, 50, 99, 100, 101, 120, 199, 200, 300}

CollisionInit ==
    /\ \E xa \in CollisionXs : player = NewFighter("p1", Px(xa))
    /\ \E xb \in CollisionXs :
           cpu = [NewFighter("p2", Px(xb)) EXCEPT !.facingRight = FALSE]
    /\ timers = <<>>
    /\ running = TRUE
    /\ outcomes = <<>>
    /\ store = InitialStore
    /\ reloaded = FALSE
    /\ loop = NoLoop
    /\ signal = NoSignal
    /\ tickCount = 0
    /\ stoppedAt = -1
    /\ capture = [player |-> NoCapture, cpu |-> NoCapture]
    /\ log \in { [valid |-> FALSE, unit |-> "pair", swap |-> sw] : sw \in BOOLEAN }

(* checkCollision called on the pair, in both argument orders *)
CheckPair ==
    /\ log.unit = "pair"
    /\ log' = [valid |-> FALSE, unit |-> "check", a0 |-> player, b0 |-> cpu,
               ab |-> checkCollision(player, cpu),
               ba |-> checkCollision(cpu, player)]
    /\ UNCHANGED <<player, cpu, timers, running, outcomes, store, reloaded, loop, signal,
                   tickCount, stoppedAt, capture>>

(* resolvePushCollision called on a pair that collides, as step 3 of
   FightManager.update calls it, with the fighters in either argument
   position *)
PushPair ==
    /\ log.unit = "pair"
    /\ checkCollision(player, cpu)
    /\ LET pushed == IF log.swap
                     THEN LET r == resolvePushCollision(cpu, player)
                          IN  <<r[2], r[1]>>
                     ELSE resolvePushCollision(player, cpu)
       IN  /\ player' = pushed[1]
           /\ cpu' = pushed[2]
    /\ log' = [valid |-> FALSE, unit |-> "push", a0 |-> player, b0 |-> cpu,
               swap |-> log.swap]
    /\ UNCHANGED <<timers, running, outcomes, store, reloaded, loop, signal,
                   tickCount, stoppedAt, capture>>

CollisionNext == CheckPair \/ PushPair

CollisionSpec == CollisionInit /\ [][CollisionNext]_vars

----------------------------------------------------------------------------
(* The scheduler on its own: start(), stop() and frame notifications, with
   an update callback that counts its invocations (tickCount) and may call
   stop(), as FightManager.update does when a fighter is down.

   A scheduler is followed from its construction through one run; a
   start() after the run was stopped is not followed. *)

(* the elapsed times frames come with: 5 ms, one timestep, 20 ms, two
   timesteps, 1000 ms and 2000 ms *)
FrameDeltas ==
    {LoopMs(5), timestep, LoopMs(20), 2 * timestep, LoopMs(1000), LoopMs(2000)}

(* the invocation of a frame in which the callback calls stop(): never, the
   first, the second, the sixtieth *)
StopAts == {0, 1, 2, 60}

LoopInit ==
    /\ player = NewFighter("player", Px(PLAYER_START_X))
    /\ cpu = [NewFighter("cpu", Px(CPU_START_X)) EXCEPT !.facingRight = FALSE]
    /\ timers = <<>>
    /\ running = FALSE
    /\ outcomes = <<>>
    /\ store = InitialStore
    /\ reloaded = FALSE
    /\ loop = NoLoop
    /\ signal = NoSignal
    /\ tickCount = 0
    /\ stoppedAt = -1
    /\ capture = [player |-> NoCapture, cpu |-> NoCapture]
    /\ log = [valid |-> FALSE, unit |-> "init"]

(* what a call or a frame found: the loop, the callbacks made so far, the
   last stop *)
LoopBefore ==
    [wasRunning |-> running, loop0 |-> loop, ticks0 |-> tickCount,
     stoppedAt0 |-> stoppedAt]

(* gameLoop.start() *)
LoopStart ==
    /\ stoppedAt = -1
    /\ LET n == StartRequests(running)
       IN  /\ running' = TRUE
           /\ loop' = [loop EXCEPT !.frames = @ + n]
           /\ log' = [valid |-> FALSE, unit |-> "start", before |-> LoopBefore,
                      requested |-> n]
    /\ UNCHANGED <<player, cpu, timers, outcomes, store, reloaded, signal,
                   tickCount, stoppedAt, capture>>

(* gameLoop.stop() called between frames; the frame requested last is
   cancelled, or its notification is already on its way *)
LoopStop ==
    /\ \E cancelled \in BOOLEAN :
         /\ running' = FALSE
         /\ loop' = IF running /\ cancelled THEN [loop EXCEPT !.frames = 0]
                    ELSE loop
         /\ stoppedAt' = IF running THEN tickCount ELSE stoppedAt
         /\ log' = [valid |-> FALSE, unit |-> "stop", before |-> LoopBefore,
                    cancelled |-> cancelled]
    /\ UNCHANGED <<player, cpu, timers, outcomes, store, reloaded, signal,
                   tickCount, capture>>

(* a requested frame notification is delivered *)
LoopFrame ==
    /\ loop.frames > 0
    /\ loop.delivered < MaxFrames
    /\ \E delta \in FrameDeltas, stopAt \in StopAts :
         LET runs == FrameRuns(running)
             r == IF runs
                  THEN LoopTicks(loop.accumulator + ClampDelta(delta), 0, stopAt, {})
                  ELSE [accumulator |-> loop.accumulator, ticks |-> 0,
                        dts |-> {}, stopped |-> FALSE]
             again == IF runs /\ ~r.stopped THEN 1 ELSE 0
         IN  /\ loop' = [accumulator |-> r.accumulator,
                         frames |-> loop.frames - 1 + again,
                         delivered |-> loop.delivered + 1]
             /\ running' = (running /\ ~r.stopped)
             /\ tickCount' = tickCount + r.ticks
             /\ stoppedAt' = IF r.stopped THEN tickCount + r.ticks ELSE stoppedAt
             /\ log' = [valid |-> FALSE, unit |-> "frame", before |-> LoopBefore,
                        delta |-> delta, stopAt |-> stopAt, ticks |-> r.ticks,
                        dts |-> r.dts, stopped |-> r.stopped,
                        requested |-> again]
    /\ UNCHANGED <<player, cpu, timers, outcomes, store, reloaded, signal, capture>>

LoopNext == LoopStart \/ LoopStop \/ LoopFrame

LoopSpec == LoopInit /\ [][LoopNext]_vars

----------------------------------------------------------------------------
(* A Signal on its own: reads, writes, subscriptions.

   Subscribers are callbacks that record what they are called with, as the
   views do; a callback is subscribed at most once at a time. *)

SignalValues == {0, 1, 2}
Callbacks == {"cbA", "cbB", "cbC"}

(* the subscribers of a signal, as a set *)
Subscribed(sig) == {sig.subscribers[i] : i \in 1..Len(sig.subscribers)}

SignalInit ==
    /\ player = NewFighter("player", Px(PLAYER_START_X))
    /\ cpu = [NewFighter("cpu", Px(CPU_START_X)) EXCEPT !.facingRight = FALSE]
    /\ timers = <<>>
    /\ running = FALSE
    /\ outcomes = <<>>
    /\ store = InitialStore
    /\ reloaded = FALSE
    /\ loop = NoLoop
    /\ \E initial \in SignalValues : signal = NewSignal(initial)
    /\ tickCount = 0
    /\ stoppedAt = -1
    /\ capture = [player |-> NoCapture, cpu |-> NoCapture]
    /\ log = [valid |-> FALSE, unit |-> "init"]

(* signal.value = v *)
WriteSignal ==
    /\ \E v \in SignalValues :
         LET w == SignalWrite(signal, v)
         IN  /\ signal' = w.signal
             /\ log' = [valid |-> FALSE, unit |-> "write", before |-> signal,
                        v |-> v, calls |-> w.calls]
    /\ UNCHANGED <<player, cpu, timers, running, outcomes, store, reloaded, loop,
                   tickCount, stoppedAt, capture>>

(* signal.value read *)
ReadSignal ==
    /\ log' = [valid |-> FALSE, unit |-> "read", before |-> signal,
               returned |-> SignalRead(signal), calls |-> <<>>]
    /\ UNCHANGED <<player, cpu, timers, running, outcomes, store, reloaded, loop,
                   signal, tickCount, stoppedAt, capture>>

(* signal.peek() *)
PeekSignal ==
    /\ log' = [valid |-> FALSE, unit |-> "peek", before |-> signal,
               returned |-> SignalPeek(signal), calls |-> <<>>]
    /\ UNCHANGED <<player, cpu, timers, running, outcomes, store, reloaded, loop,
                   signal, tickCount, stoppedAt, capture>>

(* signal.subscribe(cb) *)
SubscribeSignal ==
    /\ \E cb \in Callbacks \ Subscribed(signal) :
         /\ signal' = [SignalSubscribe(signal, cb) EXCEPT !.cancelled = @ \ {cb}]
         /\ log' = [valid |-> FALSE, unit |-> "subscribe", before |-> signal,
                    cb |-> cb, calls |-> <<>>]
    /\ UNCHANGED <<player, cpu, timers, running, outcomes, store, reloaded, loop,
                   tickCount, stoppedAt, capture>>

(* the unsubscribe function of a subscription is called, for the first
   time or again *)
UnsubscribeSignal ==
    /\ \E cb \in Subscribed(signal) \cup signal.cancelled :
         /\ signal' = [SignalUnsubscribe(signal, cb) EXCEPT !.cancelled = @ \cup {cb}]
         /\ log' = [valid |-> FALSE, unit |-> "unsubscribe", before |-> signal,
                    cb |-> cb, calls |-> <<>>]
    /\ UNCHANGED <<player, cpu, timers, running, outcomes, store, reloaded, loop,
                   tickCount, stoppedAt, capture>>

SignalNext ==
    \/ WriteSignal
    \/ ReadSignal
    \/ PeekSignal
    \/ SubscribeSignal
    \/ UnsubscribeSignal

SignalSpec == SignalInit /\ [][SignalNext]_vars

----------------------------------------------------------------------------
(* AIController.getInput as a function of the two fighters *)

(* where the AI's fighter stands, in px, with the opponent at 400: far and
   near on either side, and exactly 150 px away *)
AIPositions == {200, 250, 300, 500, 550, 551, 1200}

AIInit ==
    /\ player \in UpdateFighters
    /\ \E x \in AIPositions :
           cpu = [NewFighter("cpu", Px(x)) EXCEPT !.facingRight = FALSE]
    /\ timers = <<>>
    /\ running = TRUE
    /\ outcomes = <<>>
    /\ store = InitialStore
    /\ reloaded = FALSE
    /\ loop = NoLoop
    /\ signal = NoSignal
    /\ tickCount = 0
    /\ stoppedAt = -1
    /\ capture = [player |-> NoCapture, cpu |-> NoCapture]
    /\ log = [valid |-> FALSE, unit |-> "init"]

(* ai.getInput() *)
AskAI ==
    /\ log.unit = "init"
    /\ \E input \in AIGetInput(cpu, player) :
         log' = [valid |-> FALSE, unit |-> "ai", input |-> input,
                 me0 |-> cpu, opp0 |-> player]
    /\ UNCHANGED <<player, cpu, timers, running, outcomes, store, reloaded, loop,
                   signal, tickCount, stoppedAt, capture>>

AINext == AskAI

AISpec == AIInit /\ [][AINext]_vars

----------------------------------------------------------------------------
(* MaskValue as a function of the configuration value *)

(* the characters of a value: two ordinary ones and the mask character *)
ValueChars == {"a", "b", "*"}

(* configuration values: null, and every string of up to MaxValueLength
   characters *)
ConfigValues ==
    {NullString}
      \cup UNION { {Str(c) : c \in [1..n -> ValueChars]} : n \in 0..MaxValueLength }

MaskInit ==
    /\ player = NewFighter("player", Px(PLAYER_START_X))
    /\ cpu = [NewFighter("cpu", Px(CPU_START_X)) EXCEPT !.facingRight = FALSE]
    /\ timers = <<>>
    /\ running = FALSE
    /\ outcomes = <<>>
    /\ store = InitialStore
    /\ reloaded = FALSE
    /\ loop = NoLoop
    /\ signal = NoSignal
    /\ tickCount = 0
    /\ stoppedAt = -1
    /\ capture = [player |-> NoCapture, cpu |-> NoCapture]
    /\ log \in { [valid |-> FALSE, unit |-> "value", value |-> v] : v \in ConfigValues }

(* entries[child.Key] = MaskValue(child.Value) *)
ApplyMask ==
    /\ log.unit = "value"
    /\ log' = [valid |-> FALSE, unit |-> "mask", value |-> log.value,
               masked |-> MaskValue(log.value)]
    /\ UNCHANGED <<player, cpu, timers, running, outcomes, store, reloaded, loop,
                   signal, tickCount, stoppedAt, capture>>

MaskNext == ApplyMask

MaskSpec == MaskInit /\ [][MaskNext]_vars

----------------------------------------------------------------------------
(* Outcome reporting over a series of matches: each page load builds a
   FightManager on the persisted store; a match ends won or lost, and the
   page is loaded again by the scheduled reload or by the user *)

(* the player's health at the end of a won match *)
FinalHealths == {1, 40, MAX_HEALTH}

StoreLog(unit, st, health) ==
    [valid |-> FALSE, unit |-> unit, store0 |-> st,
     level |-> st.currentLevel, health |-> health]

StoreInit ==
    /\ player = NewFighter("player", Px(PLAYER_START_X))
    /\ cpu = [NewFighter("cpu", Px(CPU_START_X)) EXCEPT !.facingRight = FALSE]
    /\ timers = <<>>
    /\ running = TRUE
    /\ outcomes = <<>>
    /\ store = InitialStore
    /\ reloaded = FALSE
    /\ loop = NoLoop
    /\ signal = NoSignal
    /\ tickCount = 0
    /\ stoppedAt = -1
    /\ capture = [player |-> NoCapture, cpu |-> NoCapture]
    /\ log = StoreLog("load", InitialStore, MAX_HEALTH)

(* the cpu's health reaches 0 with the player at health h: handleWin() *)
MatchWon ==
    /\ running
    /\ \E h \in FinalHealths :
          LET w == handleWin([World EXCEPT !.player.health = h,
                                           !.cpu.health = 0])
          IN  /\ player' = w.player
              /\ cpu' = w.cpu
              /\ timers' = w.timers
              /\ running' = w.running
              /\ outcomes' = w.outcomes
              /\ store' = w.store
              /\ stoppedAt' = w.stoppedAt
              /\ log' = StoreLog("win", store, h)
    /\ UNCHANGED <<reloaded, loop, signal, tickCount, capture>>

(* the player's health reaches 0: handleLoss() *)
MatchLost ==
    /\ running
    /\ LET w == handleLoss([World EXCEPT !.player.health = 0])
       IN  /\ player' = w.player
           /\ timers' = w.timers
           /\ running' = w.running
           /\ outcomes' = w.outcomes
           /\ store' = w.store
           /\ stoppedAt' = w.stoppedAt
           /\ log' = StoreLog("loss", store, 0)
    /\ UNCHANGED <<cpu, reloaded, loop, signal, tickCount, capture>>

(* the page as a load leaves it: a new FightManager, no timer pending *)
PageLoaded ==
    /\ player' = NewFighter("player", Px(PLAYER_START_X))
    /\ cpu' = [NewFighter("cpu", Px(CPU_START_X)) EXCEPT !.facingRight = FALSE]
    /\ timers' = <<>>
    /\ running' = TRUE
    /\ outcomes' = <<>>
    /\ stoppedAt' = -1

(* the closure scheduled by handleWin() or handleLoss() runs, 2 s after the
   match ended *)
ReloadFires ==
    /\ ~running
    /\ timers # <<>>
    /\ LET tm == timers[1] IN
         /\ store' = IF tm.kind = "RELOAD_WIN"
                     THEN reloadAfterWin(store, tm.arg) ELSE store
         /\ IF tm.kind = "RELOAD_LOSS" \/ tm.arg <= LAST_LEVEL
            THEN PageLoaded
            ELSE /\ timers' = <<>>
                 /\ UNCHANGED <<player, cpu, running, outcomes, stoppedAt>>
         /\ log' = StoreLog(IF tm.kind = "RELOAD_WIN" THEN "reloadWin"
                                                      ELSE "reloadLoss",
                            store, player.health)
    /\ UNCHANGED <<reloaded, loop, signal, tickCount, capture>>

(* the user loads the page again, whatever the match is doing *)
UserReload ==
    /\ PageLoaded
    /\ log' = StoreLog("load", store, player.health)
    /\ UNCHANGED <<store, reloaded, loop, signal, tickCount, capture>>

StoreNext == MatchWon \/ MatchLost \/ ReloadFires \/ UserReload

StoreSpec == StoreInit /\ [][StoreNext]_vars

----------------------------------------------------------------------------
(* Properties *)

(* the two hit resolutions of the last tick: a0, d0 are the attacker and the
   defender as the resolution found them, a, d as it left them *)
LogHits == IF log.valid THEN {log.hits[1], log.hits[2]} ELSE {}

Attacking(h) == h.a0.state = "ATTACKING"
InRange(h) == Abs(h.a0.x - h.d0.x) <= Px(150)
BlockedAtHeight(h) ==
    \/ h.d0.state = "BLOCKING_HIGH" /\ h.a0.attackHeight = "HIGH"
    \/ h.d0.state = "BLOCKING_LOW" /\ h.a0.attackHeight = "LOW"
BlockedMid(h) ==
    h.d0.state \in {"BLOCKING_HIGH", "BLOCKING_LOW"} /\ h.a0.attackHeight = "MID"
Lands(h) == Attacking(h) /\ InRange(h) /\ ~BlockedAtHeight(h) /\ ~BlockedMid(h)

(* the two damage tiers of an attack type *)
Tiers(attackType) ==
    IF attackType = "PUNCH" THEN {5, 20}
    ELSE IF attackType = "KICK" THEN {7, 25}
    ELSE {}

(* C1: an in-range attack that the defender neither blocks at its height nor
   blocks as a MID attack takes a full tier damage of its type off the
   defender (clamped at 0), stuns the defender, and sets the attacker to
   IDLE with attackType NONE, all in the same resolution *)
C1_FullHitResolution ==
    \A h \in LogHits :
        Lands(h) =>
            /\ \E dmg \in Tiers(h.a0.attackType) :
                   h.d.health = IF h.d0.health - dmg < 0 THEN 0
                                ELSE h.d0.health - dmg
            /\ h.d.state = "STUNNED"
            /\ h.a.state = "IDLE"
            /\ h.a.attackType = "NONE"

(* a HIGH attack lands on a fighter that blocks low, or a LOW attack on one
   that blocks high *)
C1_Witness ==
    \E h \in LogHits :
        /\ Lands(h)
        /\ h.d0.state \in {"BLOCKING_HIGH", "BLOCKING_LOW"}
        /\ h.d0.health = 100
        /\ h.d.state = "STUNNED"

(* C2: an in-range MID attack on a blocking defender takes exactly 2 off the
   defender's health (clamped at 0), leaves the defender in its blocking
   state, and leaves the attacker's state and attackType as they were *)
C2_ChipResolution ==
    \A h \in LogHits :
        (Attacking(h) /\ InRange(h) /\ BlockedMid(h)) =>
            /\ h.d.health = IF h.d0.health - 2 < 0 THEN 0 ELSE h.d0.health - 2
            /\ h.d.state = h.d0.state
            /\ h.a.state = h.a0.state
            /\ h.a.attackType = h.a0.attackType

C2_Witness ==
    \E h \in LogHits :
        /\ Attacking(h) /\ InRange(h) /\ BlockedMid(h)
        /\ h.d.health = h.d0.health - 2

(* C3: an in-range attack blocked at its own height changes nothing: health,
   state, attackType and chargeLevel of both fighters stay as they were *)
C3_PerfectBlock ==
    \A h \in LogHits :
        (Attacking(h) /\ InRange(h) /\ BlockedAtHeight(h)) =>
            /\ h.d.health = h.d0.health /\ h.a.health = h.a0.health
            /\ h.d.state = h.d0.state /\ h.a.state = h.a0.state
            /\ h.d.attackType = h.d0.attackType /\ h.a.attackType = h.a0.attackType
            /\ h.d.chargeLevel = h.d0.chargeLevel /\ h.a.chargeLevel = h.a0.chargeLevel
            /\ h.sched = <<>>

C3_Witness ==
    \E h \in LogHits :
        /\ Attacking(h) /\ InRange(h) /\ BlockedAtHeight(h)
        /\ h.d.state = h.d0.state

(* C4: one attack takes health off the defender on at most one tick *)
C4_NoReHit ==
    /\ capture.player.landed <= 1
    /\ capture.cpu.landed <= 1

(* the tier damage the charge level selects *)
TierDamage(attackType, chargeLevel) ==
    IF attackType = "PUNCH" THEN (IF chargeLevel >= 9 THEN 20 ELSE 5)
    ELSE IF attackType = "KICK" THEN (IF chargeLevel >= 9 THEN 25 ELSE 7)
    ELSE 0

(* C5: the damage of an unblocked in-range hit is the tier selected by the
   attack type and the charge level the attacker had when it released *)
C5_DamageTier ==
    \A h \in LogHits :
        Lands(h) =>
            LET dmg == TierDamage(h.a0.attackType, capture[h.att].charge)
            IN  h.d.health = IF h.d0.health - dmg < 0 THEN 0 ELSE h.d0.health - dmg

(* C6: the update in which a CHARGING fighter releases leaves chargeLevel as
   it was, and hit detection of the same tick still reads that value *)
C6_ChargePreserved ==
    log.valid =>
        /\ (log.p0.state = "CHARGING" /\ log.pU.state = "ATTACKING") =>
              /\ log.pU.chargeLevel = log.p0.chargeLevel
              /\ log.hits[1].a0.chargeLevel = log.p0.chargeLevel
        /\ (log.c0.state = "CHARGING" /\ log.cU.state = "ATTACKING") =>
              /\ log.cU.chargeLevel = log.c0.chargeLevel
              /\ log.hits[1].d0.chargeLevel = log.c0.chargeLevel

(* C7: a resolution whose attacker is not ATTACKING, or is further than 150
   from the defender, changes neither fighter and schedules nothing; at
   exactly 150 an attack that is not blocked at its height takes health *)
C7_NoOpUnlessAttackingInRange ==
    \A h \in LogHits :
        /\ (~Attacking(h) \/ Abs(h.a0.x - h.d0.x) > Px(150)) =>
               h.a = h.a0 /\ h.d = h.d0 /\ h.sched = <<>>
        /\ (Attacking(h) /\ Abs(h.a0.x - h.d0.x) = Px(150) /\ ~BlockedAtHeight(h)) =>
               h.d.health < h.d0.health

(* an attack is in progress out of range and its resolution does nothing *)
C7_Witness ==
    \E h \in LogHits :
        /\ Attacking(h)
        /\ Abs(h.a0.x - h.d0.x) > Px(150)
        /\ h.a = h.a0 /\ h.d = h.d0

(* C8: health is within 0..100, in every state and at every point of a tick *)
C8_HealthRange ==
    /\ player.health \in 0..100
    /\ cpu.health \in 0..100
    /\ \A h \in LogHits : h.d.health \in 0..100 /\ h.a.health \in 0..100

(* a hit larger than the health left has brought a fighter to exactly 0 *)
C8_Witness ==
    \E h \in LogHits :
        /\ Lands(h)
        /\ \A dmg \in Tiers(h.a0.attackType) : h.d0.health < dmg
        /\ h.d.health = 0

(* C9: the loop is stopped on the first tick that ends with a fighter at
   health 0, the outcome handler runs once, and no tick runs afterwards *)
C9_MatchEndsOnce ==
    /\ Len(outcomes) <= 1
    /\ (player.health <= 0 \/ cpu.health <= 0) => outcomes # <<>>
    /\ outcomes # <<>> =>
          /\ ~running
          /\ stoppedAt = tickCount
          /\ player.health <= 0 \/ cpu.health <= 0

(* the match has ended in a frame that still had a timestep to run *)
C9_Witness ==
    /\ outcomes # <<>>
    /\ log.valid
    /\ log.ran < log.steps

(* C10: hit detection reads the fighters as this tick's updates and push
   left them: the positions it reads are the ones the tick ends with, they
   are at least a body width apart, the states are those the updates
   produced; the cpu input was taken from the fighters as the tick found
   them; the win check sees the health hit detection left *)
C10_PhaseOrder ==
    log.valid =>
        /\ log.hits[1].a0.x = player.x /\ log.hits[1].d0.x = cpu.x
        /\ log.hits[2].a0.x = cpu.x /\ log.hits[2].d0.x = player.x
        /\ Abs(log.hits[1].a0.x - log.hits[1].d0.x) >= Px(100)
        /\ log.hits[1].a0.state = log.pU.state
        /\ log.hits[1].d0.state = log.cU.state
        /\ log.hits[2].a0 = log.hits[1].d
        /\ log.cpuInput.y # 0 =>
               (log.p0.state = "ATTACKING" \/ log.p0.chargeLevel > 5)
        /\ (log.hits[2].d.health <= 0 \/ log.hits[2].a.health <= 0) => ~running

(* the fighters walked into each other, were pushed apart, and an attack
   landed on the pushed fighter in the same tick *)
C10_Witness ==
    /\ log.valid
    /\ log.collided
    /\ Abs(log.pU.x - log.cU.x) < Px(100)
    /\ \E h \in LogHits : h.d.health < h.d0.health

----------------------------------------------------------------------------
(* Properties of one fighter's update and of the delayed reversions *)

Updated == log.unit = "update"
Fired == log.unit = "fire"
Held == log.input.punchHeld \/ log.input.kickHeld

(* C11: a delayed reversion applies only if the fighter has stayed in the
   state it was scheduled in: one whose fighter has left that state since
   changes nothing when it fires, also when the fighter is again in a state
   of that name *)
C11_SupersededNeverApplies ==
    (Fired /\ log.tm.who = "player" /\ log.tm.arg = 1) => player = log.f0

(* C12: a delayed reversion that fires while its fighter is in a state
   other than the one it was issued from changes no field of any fighter *)
C12_StaleReversionDropped ==
    (Fired /\ log.tm.who = "player" /\ log.f0.state # log.tm.kind) =>
        /\ player = log.f0
        /\ cpu = log.c0

(* the attack-end reversion of an attack that has landed fires on its
   fighter after it was stunned *)
C12_Witness ==
    /\ Fired /\ log.tm.who = "player"
    /\ log.tm.kind = "ATTACKING" /\ log.f0.state = "STUNNED"
    /\ player = log.f0

(* C13: an update of a CHARGING fighter with a button held, t after the
   charge started and t not above OVERHEAT_TIME, sets chargeLevel to
   min(t / MAX_CHARGE_TIME, 1); the update that starts the charge sets 0;
   chargeLevel is within [0, 1] in every state *)
C13_ChargeLevelFormula ==
    /\ player.chargeLevel \in 0..10
    /\ Updated => log.fU.chargeLevel \in 0..10
    /\ (Updated /\ Held /\ log.f0.state = "CHARGING" /\ log.f0.chargeElapsed <= 20) =>
           log.fU.chargeLevel = IF log.f0.chargeElapsed >= 10 THEN 10
                                ELSE log.f0.chargeElapsed
    /\ (Updated /\ Held /\ log.f0.state # "CHARGING" /\ log.fU.state = "CHARGING") =>
           log.fU.chargeLevel = 0

(* a charge held for exactly OVERHEAT_TIME is at 1.0 *)
C13_Witness ==
    /\ Updated /\ Held
    /\ log.f0.state = "CHARGING" /\ log.f0.chargeElapsed = 20
    /\ log.fU.state = "CHARGING" /\ log.fU.chargeLevel = 10

(* C14: a CHARGING fighter updated with a button held more than
   OVERHEAT_TIME after the charge started becomes OVERHEATED with
   chargeLevel 0; while its cooldown reversion is pending, no update with a
   button held puts it into CHARGING or ATTACKING *)
C14_OverheatLockout ==
    (Updated /\ Held) =>
        /\ (log.f0.state = "CHARGING" /\ log.f0.chargeElapsed > 20) =>
               log.fU.state = "OVERHEATED" /\ log.fU.chargeLevel = 0
        /\ (\E i \in 1..Len(log.pending) :
                log.pending[i].who = "player" /\ log.pending[i].kind = "OVERHEATED") =>
               log.fU.state \notin {"CHARGING", "ATTACKING"}

(* C15: a charge that has lasted longer than OVERHEAT_TIME when the update
   sees it end is not released as an attack *)
C15_OverlongChargeDiscarded ==
    (Updated /\ log.f0.state = "CHARGING" /\ log.f0.chargeElapsed > 20) =>
        log.fU.state # "ATTACKING"

(* C16: an update of a CHARGING fighter with no button held makes it
   ATTACKING at the height input.y selects (HIGH above 0.5, LOW below -0.5,
   MID otherwise), with the attack type of the charge *)
C16_Release ==
    (Updated /\ ~Held /\ log.f0.state = "CHARGING") =>
        /\ log.fU.state = "ATTACKING"
        /\ log.fU.attackHeight = IF log.input.y = 2 THEN "HIGH"
                                 ELSE IF log.input.y = -2 THEN "LOW" ELSE "MID"
        /\ log.fU.attackType = log.f0.attackType
        /\ log.fU.attackType \in {"PUNCH", "KICK"}

(* a kick released with input.y exactly 0.5 goes out at MID *)
C16_Witness ==
    /\ Updated /\ ~Held /\ log.f0.state = "CHARGING"
    /\ log.input.y = 1 /\ log.f0.attackType = "KICK"
    /\ log.fU.state = "ATTACKING" /\ log.fU.attackHeight = "MID"

(* the fighter is blocking once the block rule of this update has run *)
BlocksNow ==
    /\ log.f0.state \in {"IDLE", "MOVING", "BLOCKING_HIGH", "BLOCKING_LOW"}
    /\ log.input.y \in {2, -2}

(* C17: with a button held, a charge starts (CHARGING, chargeLevel 0, fresh
   start time, PUNCH if punch is held else KICK) exactly when the fighter
   began the tick in none of CHARGING, OVERHEATED, ATTACKING and is not
   blocking; otherwise no charge starts and the start time is kept *)
C17_ChargeStart ==
    (Updated /\ Held) =>
        IF log.f0.state \notin {"CHARGING", "OVERHEATED", "ATTACKING"} /\ ~BlocksNow
        THEN /\ log.fU.state = "CHARGING"
             /\ log.fU.chargeLevel = 0
             /\ log.fU.chargeElapsed = 0
             /\ log.fU.attackType = IF log.input.punchHeld THEN "PUNCH" ELSE "KICK"
        ELSE /\ log.fU.state = "CHARGING" => log.f0.state = "CHARGING"
             /\ log.fU.chargeElapsed = log.f0.chargeElapsed
             /\ log.fU.attackType = log.f0.attackType

(* a stunned fighter with both buttons held starts charging a punch *)
C17_Witness ==
    /\ Updated /\ log.input.punchHeld /\ log.input.kickHeld
    /\ log.f0.state = "STUNNED"
    /\ log.fU.state = "CHARGING" /\ log.fU.attackType = "PUNCH"

(* C18: from IDLE, MOVING or a blocking state, input.y above 0.5 gives
   BLOCKING_HIGH, below -0.5 BLOCKING_LOW, and any other input.y takes a
   blocking fighter back to IDLE (from where a held button starts a
   charge); from CHARGING, ATTACKING, STUNNED, OVERHEATED no input.y gives
   a blocking state *)
C18_BlockRule ==
    Updated =>
        /\ log.f0.state \in {"IDLE", "MOVING", "BLOCKING_HIGH", "BLOCKING_LOW"} =>
              /\ log.input.y = 2 => log.fU.state = "BLOCKING_HIGH"
              /\ log.input.y = -2 => log.fU.state = "BLOCKING_LOW"
              /\ (log.input.y \in -1..1 /\ log.f0.state \in BlockingStates) =>
                     log.fU.state = IF Held THEN "CHARGING" ELSE "IDLE"
        /\ log.f0.state \in {"CHARGING", "ATTACKING", "STUNNED", "OVERHEATED"} =>
              log.fU.state \notin {"BLOCKING_HIGH", "BLOCKING_LOW"}

(* a high block is switched to a low block in one update *)
C18_Witness ==
    /\ Updated
    /\ log.f0.state = "BLOCKING_HIGH"
    /\ log.input.y = -2
    /\ log.fU.state = "BLOCKING_LOW"

(* C19: an update whose block rule leaves the fighter blocking changes
   neither x nor facing, ends in that blocking state, and leaves chargeLevel
   and attackType alone, whatever input.x and the buttons are *)
C19_BlockingPriority ==
    (Updated /\ BlocksNow) =>
        /\ log.fU.x = log.f0.x
        /\ log.fU.facingRight = log.f0.facingRight
        /\ log.fU.state = IF log.input.y = 2 THEN "BLOCKING_HIGH" ELSE "BLOCKING_LOW"
        /\ log.fU.chargeLevel = log.f0.chargeLevel
        /\ log.fU.attackType = log.f0.attackType

(* a moving fighter blocks while a direction and a button are held *)
C19_Witness ==
    /\ Updated /\ BlocksNow
    /\ log.f0.state = "MOVING"
    /\ log.input.x # 0 /\ log.input.punchHeld
    /\ log.fU.state \in BlockingStates

(* C20: a fighter that begins the tick IDLE or MOVING and does not block
   moves by input.x * MOVE_SPEED * dt, faces the way of input.x and is
   MOVING (CHARGING if a charge starts); with input.x zero it stays where
   it is and a MOVING fighter becomes IDLE; from any other state the update
   changes neither x nor facing *)
C20_Movement ==
    Updated =>
        /\ (log.f0.state \in {"IDLE", "MOVING"} /\ ~BlocksNow /\ log.input.x # 0) =>
              /\ log.fU.x = log.f0.x + log.input.x * 200
              /\ log.fU.facingRight = (log.input.x > 0)
              /\ log.fU.state = IF Held THEN "CHARGING" ELSE "MOVING"
        /\ (log.f0.state \in {"IDLE", "MOVING"} /\ ~BlocksNow /\ log.input.x = 0) =>
              /\ log.fU.x = log.f0.x
              /\ (log.f0.state = "MOVING" /\ ~Held) => log.fU.state = "IDLE"
        /\ log.f0.state \notin {"IDLE", "MOVING"} =>
              /\ log.fU.x = log.f0.x
              /\ log.fU.facingRight = log.f0.facingRight

(* a fighter moving right takes a half step to the left *)
C20_Witness ==
    /\ Updated
    /\ log.f0.state = "MOVING" /\ log.f0.facingRight
    /\ log.input.x = -1 /\ ~Held
    /\ log.fU.x = log.f0.x - 200 /\ ~log.fU.facingRight

----------------------------------------------------------------------------
(* Properties of the attack and stun durations *)

(* fighter f has a reversion of kind pending that was scheduled when it
   entered the state it is in now, due within ms *)
DueWithin(f, kind, ms) ==
    \E i \in 1..Len(timers) :
        /\ timers[i].who = f.id
        /\ timers[i].kind = kind
        /\ timers[i].arg = 0
        /\ timers[i].left \in 0..MsToDs(ms)

(* C21: a release schedules the attack end 300 ms later; a fighter that is
   ATTACKING has the attack end of that attack pending and due within
   300 ms, so no attack outlasts 300 ms whatever the inputs; an attack end
   that finds its fighter ATTACKING sets it to IDLE *)
C21_AttackRecovery ==
    /\ \A f \in {player, cpu} : f.state = "ATTACKING" => DueWithin(f, "ATTACKING", 300)
    /\ (Updated /\ log.f0.state = "CHARGING" /\ log.fU.state = "ATTACKING") =>
           \E i \in (Len(log.pending) + 1)..Len(timers) :
               /\ timers[i].who = "player" /\ timers[i].kind = "ATTACKING"
               /\ timers[i].left = 3
    /\ (Fired /\ log.tm.kind = "ATTACKING") =>
           /\ log.tm.left = 0
           /\ (log.tm.who = "player" /\ log.f0.state = "ATTACKING") => player.state = "IDLE"
           /\ (log.tm.who = "cpu" /\ log.c0.state = "ATTACKING") => cpu.state = "IDLE"

(* an attack that did not land has lasted its 300 ms and is ended by its
   own attack end *)
C21_Witness ==
    /\ Fired /\ log.tm.kind = "ATTACKING" /\ log.tm.arg = 0
    /\ \/ log.tm.who = "player" /\ log.f0.state = "ATTACKING" /\ player.state = "IDLE"
       \/ log.tm.who = "cpu" /\ log.c0.state = "ATTACKING" /\ cpu.state = "IDLE"

(* the two hit resolutions of the last tick of the fighters in reach *)
TickHits == IF Updated THEN {log.hits[1], log.hits[2]} ELSE {}

(* C22: no Fighter.update makes a fighter STUNNED, and neither does a
   reversion; a hit resolution makes only its defender STUNNED and only as a
   full hit, which schedules the recovery 300 ms later; a STUNNED fighter
   has the recovery of that stun pending and due within 300 ms; a recovery
   that finds its fighter STUNNED sets it to IDLE *)
C22_StunEntryAndRecovery ==
    /\ Updated =>
           /\ log.fU.state = "STUNNED" => log.f0.state = "STUNNED"
           /\ log.cU.state = "STUNNED" => log.c0.state = "STUNNED"
    /\ \A h \in TickHits :
           /\ h.a.state = "STUNNED" => h.a0.state = "STUNNED"
           /\ (h.d.state = "STUNNED" /\ h.d0.state # "STUNNED") => Lands(h)
           /\ Lands(h) =>
                  /\ h.d.state = "STUNNED"
                  /\ \E i \in (Len(log.pending) + 1)..Len(timers) :
                         /\ timers[i].who = h.d.id /\ timers[i].kind = "STUNNED"
                         /\ timers[i].left = 3
    /\ Fired =>
           /\ player.state = "STUNNED" => log.f0.state = "STUNNED"
           /\ cpu.state = "STUNNED" => log.c0.state = "STUNNED"
    /\ \A f \in {player, cpu} : f.state = "STUNNED" => DueWithin(f, "STUNNED", 300)
    /\ (Fired /\ log.tm.kind = "STUNNED") =>
           /\ log.tm.left = 0
           /\ (log.tm.who = "player" /\ log.f0.state = "STUNNED") => player.state = "IDLE"
           /\ (log.tm.who = "cpu" /\ log.c0.state = "STUNNED") => cpu.state = "IDLE"

(* a fighter stunned by a hit has stayed STUNNED for the 300 ms and is set
   to IDLE by the recovery of that hit *)
C22_Witness ==
    /\ Fired /\ log.tm.kind = "STUNNED" /\ log.tm.arg = 0
    /\ \/ log.tm.who = "player" /\ log.f0.state = "STUNNED" /\ player.state = "IDLE"
       \/ log.tm.who = "cpu" /\ log.c0.state = "STUNNED" /\ cpu.state = "IDLE"

(* C23: an update of a grounded IDLE fighter with input.y above 0.5 makes
   it JUMPING and takes it off the ground (y above GROUND_Y on the screen,
   i.e. smaller) *)
C23_JumpStart ==
    (Updated /\ log.f0.state = "IDLE" /\ log.f0.y = GROUND_Y /\ log.input.y = 2) =>
        /\ log.fU.state = "JUMPING"
        /\ log.fU.y < GROUND_Y

(* C24: a fighter carries windUpProgress (here in tenths): an update of a
   CHARGING fighter with a button held, t after the charge started, sets it
   to min(t / 0.5 s, 1), which is 1.0 from t = 0.5 s on while chargeLevel is
   still 0.5; an update that starts a charge leaves it 0 *)
C24_WindUpProgress ==
    (Updated /\ Held /\ log.fU.state = "CHARGING") =>
        /\ "windUpProgress" \in DOMAIN log.fU
        /\ log.fU.windUpProgress =
               IF log.f0.state # "CHARGING" THEN 0
               ELSE Min(2 * log.f0.chargeElapsed, 10)

----------------------------------------------------------------------------
(* Properties of the collision functions *)

(* C25: checkCollision is true exactly when the fighters are less than
   100 px apart (false at exactly 100 px), gives the same answer in both
   argument orders, also left of the origin, and changes neither fighter *)
C25_CheckCollision ==
    log.unit = "check" =>
        /\ log.ab = (/\ log.a0.x - log.b0.x < Px(100)
                     /\ log.b0.x - log.a0.x < Px(100))
        /\ log.ba = log.ab
        /\ player = log.a0
        /\ cpu = log.b0

(* fighters at -50 px and 50 px, exactly 100 px apart, do not collide *)
C25_Witness ==
    /\ log.unit = "check"
    /\ log.a0.x = Px(-50) /\ log.b0.x = Px(50)
    /\ ~log.ab /\ ~log.ba

(* C26: resolvePushCollision on a colliding pair moves the two fighters by
   the same amount in opposite directions, leaves them exactly 100 px apart
   with the fighter that was left still left, in either argument order, and
   changes nothing but x *)
C26_ResolvePush ==
    log.unit = "push" =>
        /\ Abs(player.x - cpu.x) = Px(100)
        /\ player.x - log.a0.x = log.b0.x - cpu.x
        /\ player.x # log.a0.x
        /\ log.a0.x < log.b0.x => player.x < cpu.x
        /\ log.b0.x < log.a0.x => cpu.x < player.x
        /\ player = [log.a0 EXCEPT !.x = player.x]
        /\ cpu = [log.b0 EXCEPT !.x = cpu.x]

(* the left fighter is passed as the second argument, 20 px from the other,
   and ends 100 px to its left *)
C26_Witness ==
    /\ log.unit = "push" /\ ~log.swap
    /\ log.a0.x = Px(120) /\ log.b0.x = Px(100)
    /\ player.x = Px(160) /\ cpu.x = Px(60)

----------------------------------------------------------------------------
(* Properties of the scheduler *)

FrameDelivered == log.unit = "frame"

(* C27: a frame delivered to a running loop adds min(delta, 1000 ms) to the
   accumulator and invokes the callback once per whole timestep in it, each
   time with the timestep, leaving less than a timestep; a frame gives at
   most 60 callbacks, also one of 2000 ms *)
C27_FixedTimestep ==
    /\ running => loop.accumulator \in 0..(timestep - 1)
    /\ (FrameDelivered /\ log.before.wasRunning /\ ~log.stopped) =>
           LET total == log.before.loop0.accumulator
                          + (IF log.delta > 60000 THEN 60000 ELSE log.delta)
           IN  /\ log.ticks * 1000 <= total
               /\ total < (log.ticks + 1) * 1000
               /\ loop.accumulator = total - log.ticks * 1000
               /\ tickCount = log.before.ticks0 + log.ticks
               /\ log.dts = IF log.ticks > 0 THEN {1000} ELSE {}
               /\ log.ticks <= 60

(* a frame of 2000 ms that finds 5 ms in the accumulator gives 60 callbacks
   and leaves the 5 ms *)
C27_Witness ==
    /\ FrameDelivered /\ log.before.wasRunning
    /\ log.delta = LoopMs(2000)
    /\ log.before.loop0.accumulator = LoopMs(5)
    /\ log.ticks = 60
    /\ loop.accumulator = LoopMs(5)

(* C28: once stop() has been called no callback is invoked and no frame is
   requested: a frame notification delivered to a stopped loop does
   nothing, and a stop() made by the callback ends the frame with that
   invocation, whatever is left in the accumulator *)
C28_StopPreventsTicks ==
    /\ (~running /\ stoppedAt >= 0) => tickCount = stoppedAt
    /\ log.unit = "stop" =>
           /\ ~running
           /\ loop.frames <= log.before.loop0.frames
    /\ (FrameDelivered /\ ~log.before.wasRunning) =>
           /\ log.ticks = 0 /\ log.requested = 0
           /\ ~running
           /\ loop.frames = log.before.loop0.frames - 1
           /\ loop.accumulator = log.before.loop0.accumulator
    /\ (FrameDelivered /\ log.stopped) =>
           /\ log.ticks = log.stopAt /\ log.requested = 0
           /\ ~running
           /\ loop.frames = log.before.loop0.frames - 1

(* the callback stops the loop in the first of the 60 invocations a frame
   would have made *)
C28_Witness ==
    /\ FrameDelivered /\ log.stopped
    /\ log.stopAt = 1 /\ log.ticks = 1
    /\ loop.accumulator >= 59 * timestep
    /\ ~running /\ loop.frames = 0

(* C29: start() on a running loop and stop() on a stopped loop change
   nothing; start() on a loop not running requests one frame; at most one
   frame request is pending at any time *)
C29_StartStopIdempotent ==
    /\ loop.frames <= 1
    /\ log.unit = "start" =>
           /\ running
           /\ log.requested = IF log.before.wasRunning THEN 0 ELSE 1
           /\ log.before.wasRunning => loop = log.before.loop0
           /\ tickCount = log.before.ticks0
    /\ (log.unit = "stop" /\ ~log.before.wasRunning) =>
           /\ ~running
           /\ loop = log.before.loop0
           /\ tickCount = log.before.ticks0
           /\ stoppedAt = log.before.stoppedAt0

(* start() is called again on a loop that has run callbacks and has its next
   frame requested *)
C29_Witness ==
    /\ log.unit = "start" /\ log.before.wasRunning
    /\ tickCount > 0
    /\ loop.frames = 1 /\ log.requested = 0

----------------------------------------------------------------------------
(* Properties of a Signal *)

(* C30: a write of the current value changes nothing and calls no
   subscriber; a write of another value v stores v and calls every
   subscriber once with v, in subscription order, within the write; a read
   and a peek return the value written last, change nothing and call no
   subscriber *)
C30_EqualityGatedWrite ==
    /\ signal.value = signal.written
    /\ (log.unit = "write" /\ log.v = log.before.value) =>
           /\ signal.value = log.before.value
           /\ signal.subscribers = log.before.subscribers
           /\ log.calls = <<>>
    /\ (log.unit = "write" /\ log.v # log.before.value) =>
           /\ signal.value = log.v
           /\ signal.subscribers = log.before.subscribers
           /\ Len(log.calls) = Len(log.before.subscribers)
           /\ \A i \in 1..Len(log.calls) :
                  log.calls[i] = <<log.before.subscribers[i], log.v>>
           /\ \A cb \in Subscribed(log.before) :
                  Cardinality({i \in 1..Len(log.calls) : log.calls[i][1] = cb}) = 1
    /\ log.unit \in {"read", "peek"} =>
           /\ log.returned = log.before.written
           /\ signal = log.before
           /\ log.calls = <<>>

(* a signal with two subscribers is written a new value: the one subscribed
   first is called first, each once, with the new value *)
C30_Witness ==
    /\ log.unit = "write"
    /\ log.before.value = 0 /\ log.v = 2
    /\ log.before.subscribers = <<"cbB", "cbA">>
    /\ log.calls = << <<"cbB", 2>>, <<"cbA", 2>> >>
    /\ signal.value = 2

(* the subscribers of sig other than cb, in their order *)
OthersOf(sig, cb) == SelectSeq(sig.subscribers, LAMBDA c : c # cb)

(* C31: a callback whose unsubscribe function has been called is not called
   by any later write; the unsubscribe takes out that callback only, leaves
   the others in their order and the value alone, and calls nobody; called
   again it changes nothing *)
C31_Unsubscribe ==
    /\ log.unit = "write" =>
           \A i \in 1..Len(log.calls) : log.calls[i][1] \notin log.before.cancelled
    /\ log.unit = "unsubscribe" =>
           /\ signal.subscribers = OthersOf(log.before, log.cb)
           /\ signal.value = log.before.value
           /\ log.calls = <<>>
           /\ log.cb \in log.before.cancelled =>
                  signal.subscribers = log.before.subscribers

(* the first of three subscribers has unsubscribed; a write of a new value
   calls the other two, in their order *)
C31_Witness ==
    /\ log.unit = "write"
    /\ log.before.cancelled = {"cbA"}
    /\ log.before.subscribers = <<"cbC", "cbB">>
    /\ log.calls = << <<"cbC", 1>>, <<"cbB", 1>> >>

----------------------------------------------------------------------------
(* Properties of the AI *)

Asked == log.unit = "ai"

(* the opponent is ATTACKING or has a chargeLevel above 0.5 *)
Threat == log.opp0.state = "ATTACKING" \/ log.opp0.chargeLevel > 5

(* C32: getInput returns y = 1 or y = -1 only when the opponent is
   ATTACKING or charged above 0.5, and then with x = 0 and no button held;
   without such an opponent y is 0 *)
C32_AIDefence ==
    Asked =>
        /\ log.input.y \in {-2, 0, 2}
        /\ log.input.y # 0 =>
               /\ Threat
               /\ log.input.x = 0
               /\ ~log.input.punchHeld /\ ~log.input.kickHeld
        /\ ~Threat => log.input.y = 0

(* the opponent has charged to 1.0 and the AI blocks low *)
C32_Witness ==
    /\ Asked
    /\ log.opp0.state = "CHARGING" /\ log.opp0.chargeLevel = 10
    /\ log.input = AxisInput(0, -2, FALSE, FALSE)

(* C33: an input that is not a block walks toward the opponent with no
   button held when the fighters are more than 150 px apart, and otherwise
   stands still with at most punch held; the call changes neither fighter *)
C33_AIOffence ==
    (Asked /\ log.input.y = 0) =>
        /\ Abs(log.me0.x - log.opp0.x) > Px(150) =>
               /\ log.input.x = IF log.me0.x < log.opp0.x THEN 2 ELSE -2
               /\ ~log.input.punchHeld /\ ~log.input.kickHeld
        /\ Abs(log.me0.x - log.opp0.x) <= Px(150) =>
               /\ log.input.x = 0
               /\ ~log.input.kickHeld
        /\ player = log.opp0
        /\ cpu = log.me0

(* the AI stands left of the opponent, further than 150 px, and walks
   right *)
C33_Witness ==
    /\ Asked
    /\ log.me0.x = Px(200) /\ log.opp0.x = Px(400)
    /\ log.input = AxisInput(2, 0, FALSE, FALSE)

----------------------------------------------------------------------------
(* Properties of the diagnostics *)

(* C34: MaskValue gives null for null, "***" for the empty value and for
   values of up to 6 characters, and for a longer value a string of the same
   length that has the value's first 3 and last 3 characters in place and
   '*' everywhere between *)
C34_MaskValue ==
    log.unit = "mask" =>
        LET v == log.value
            m == log.masked
            n == Len(v.chars)
        IN  /\ v.null => m = NullString
            /\ (~v.null /\ n <= 6) => m = Str(<<"*", "*", "*">>)
            /\ (~v.null /\ n > 6) =>
                   /\ ~m.null
                   /\ Len(m.chars) = n
                   /\ \A i \in 1..n :
                          m.chars[i] = IF i <= 3 \/ i > n - 3 THEN v.chars[i] ELSE "*"

(* a value of 7 characters keeps 6 of them around one mask character *)
C34_Witness ==
    /\ log.unit = "mask"
    /\ log.value = Str(<<"a", "b", "a", "b", "a", "b", "b">>)
    /\ log.masked = Str(<<"a", "b", "a", "*", "a", "b", "b">>)

----------------------------------------------------------------------------
(* Properties of a match, tick by tick *)

(* C35: a fighter that is IDLE has chargeLevel 0 *)
C35_IdleHasNoCharge ==
    \A f \in {player, cpu} : f.state = "IDLE" => f.chargeLevel = 0

(* C36: in a tick at most one fighter loses health; when both fighters are
   ATTACKING in range at hit detection the cpu is damaged and STUNNED and
   the resolution of the cpu's attack changes nothing; the fighters are
   never both at 0 health *)
C36_SingleOutcome ==
    /\ ~(player.health <= 0 /\ cpu.health <= 0)
    /\ log.valid =>
           LET h1 == log.hits[1]
               h2 == log.hits[2]
           IN  /\ ~(h1.d.health < h1.d0.health /\ h2.d.health < h2.d0.health)
               /\ (Attacking(h1) /\ h1.d0.state = "ATTACKING" /\ InRange(h1)) =>
                      /\ h1.d.state = "STUNNED"
                      /\ h1.d.health = Max(0, h1.d0.health
                                               - TierDamage(h1.a0.attackType,
                                                            h1.a0.chargeLevel))
                      /\ h2.a = h2.a0
                      /\ h2.d = h2.d0
                      /\ h2.d.health = log.pU.health

(* both fighters released on the same tick, in range of each other *)
C36_Witness ==
    /\ log.valid
    /\ Attacking(log.hits[1]) /\ log.hits[1].d0.state = "ATTACKING"
    /\ InRange(log.hits[1])
    /\ cpu.state = "STUNNED" /\ cpu.health < log.c0.health
    /\ player.health = log.p0.health

(* C37: initially and at the end of every tick the fighters are at least
   FIGHTER_WIDTH apart *)
C37_BodiesApart ==
    Abs(player.x - cpu.x) >= Px(FIGHTER_WIDTH)

(* a tick whose updates left the bodies overlapping, ended by the push *)
C37_Witness ==
    /\ log.valid
    /\ log.collided
    /\ Abs(log.pU.x - log.cU.x) < Px(FIGHTER_WIDTH)
    /\ Abs(player.x - cpu.x) = Px(FIGHTER_WIDTH)

(* C38: the player is left of the cpu initially, after the two updates of
   every tick and at the end of every tick *)
C38_NoSideSwap ==
    /\ player.x < cpu.x
    /\ log.valid => log.pU.x < log.cU.x

(* the player walked into the cpu at full speed and is still on its left *)
C38_Witness ==
    /\ log.valid
    /\ log.pU.x = log.p0.x + MOVE_SPEED
    /\ log.cU.x - log.pU.x < Px(FIGHTER_WIDTH)
    /\ player.x < cpu.x

(* C39: Fighter.update leaves a STUNNED fighter STUNNED, with its position,
   charge and attack type unchanged, whatever the input *)
C39_StunHolds ==
    (Updated /\ log.f0.state = "STUNNED") =>
        /\ log.fU.state = "STUNNED"
        /\ log.fU.x = log.f0.x
        /\ log.fU.chargeLevel = log.f0.chargeLevel
        /\ log.fU.attackType = log.f0.attackType

----------------------------------------------------------------------------
(* Properties of the outcome reporting *)

StoreNotLower(old, new) ==
    /\ new.unlockedLevels >= old.unlockedLevels
    /\ \A l \in Levels : new.highScores[l] >= old.highScores[l]

(* C40: a win at level L with health h makes unlockedLevels the larger of
   its value and L + 1 and highScores[L] the larger of its value and
   h * 100, and nothing else; its reload makes L + 1 the current level only
   if L + 1 <= 5; a loss and its reload change nothing in the store;
   unlockedLevels and the high scores never decrease and currentLevel stays
   within 1..5 *)
C40_OutcomeReporting ==
    LET old == log.store0
        L == log.level
    IN  /\ store.currentLevel \in 1..LAST_LEVEL
        /\ StoreNotLower(old, store)
        /\ log.unit = "win" =>
              /\ store.unlockedLevels = Max(old.unlockedLevels, L + 1)
              /\ store.highScores[L] = Max(old.highScores[L], log.health * 100)
              /\ \A l \in Levels \ {L} : store.highScores[l] = old.highScores[l]
              /\ store.currentLevel = L
        /\ log.unit = "reloadWin" =>
              /\ store.currentLevel = IF L + 1 <= LAST_LEVEL THEN L + 1 ELSE L
              /\ store.unlockedLevels = old.unlockedLevels
              /\ store.highScores = old.highScores
        /\ log.unit \in {"loss", "reloadLoss", "load"} => store = old

(* a level past the first is won again with less health than its high
   score was set with, after the last level had been won *)
C40_Witness ==
    /\ log.unit = "win"
    /\ log.level > 1
    /\ log.store0.unlockedLevels = LAST_LEVEL + 1
    /\ log.store0.highScores[log.level] > log.health * 100
    /\ store.highScores[log.level] = log.store0.highScores[log.level]
    /\ store.unlockedLevels = LAST_LEVEL + 1

====
